---- MODULE Spec2Model ----
(***************************************************************************)
(* BluePeak strategy generator: the model reply parser (api/strategy.js),  *)
(* the context blob assembler (api/file-processing.js) and the word        *)
(* counter of the App.                                                     *)
(*                                                                         *)
(* A text is a sequence of characters; a character is a one-letter string, *)
(* or a name for a character that has no ASCII spelling ("I_DOT" is        *)
(* U+0130, "DOT_ABOVE" is U+0307, "SHARP_S" is U+00DF, "BULLET" is U+2022).*)
(* Positions are 1-based: position p here is JavaScript index p - 1, and 0 *)
(* stands for JavaScript's -1 / "no match".                                *)
(***************************************************************************)
EXTENDS Integers, Sequences, FiniteSets, TLC

VARIABLES
    reply,      \* the text block of the model's message (responseText)
    pieces,     \* the fragments the reply was produced from, in order
    outcome,    \* parseXMLResponse(responseText)
    response,   \* the body the strategy handler answers with
    ppc,        \* "reply" while the reply is produced, then "answered"
    lineParts,  \* the fragments the line was written from, in order
    rawLine,    \* one line of the text fallback questions are derived from
    normalForm, \* normalizeQuestionText(rawLine)
    lpc,        \* "line" while the line is written, then "done"
    textInput,  \* App state: the text of the input box
    wordCount,  \* App state: the word count shown under the input box
    files,      \* App state: the files chosen for upload
    parsedFiles,\* parseUploadedFiles(fileArray) in the strategy handler
    context,    \* buildContextBlob(textInput, parsedFiles) in the handler
    bpc,        \* "compose" while the user edits, "built" once submitted
    env,        \* process environment: apiKey set, extended thinking enabled
    method,     \* req.method of the strategy request
    rpc,        \* where the strategy handler stands
    tmpFiles,   \* fileArray: the temporary paths of the uploads of the request
    disk,       \* the temporary upload files that exist
    calls,      \* the requests sent to anthropic.messages.create, in order
    failures,   \* the errors those requests were rejected with, in order
    status,     \* the status the handler answered with (0: not yet)
    chatBody,   \* body.messages of a section-chat request
    chatRuns,   \* the number of steps the body was composed in
    conversation, \* the messages the section-chat handler sends to the model
    cpc,        \* where the section-chat request stands
    produced,   \* the text events of the model stream: chunk, and whether res.write took it
    written,    \* the chunks written to the response, in order
    aborted,    \* stream.controller.abort() was called
    writableEnded, \* res.writableEnded
    closed,     \* the request has emitted 'close'
    spc,        \* where the model stream stands
    tokenEnv,   \* process.env of the token counter: whether ANTHROPIC_API_KEY is set
    cachedBaselineTokens, \* the module variable of the token counter
    tpc,        \* where each count-tokens request stands
    baselineCalls, \* the baseline countTokens calls issued, in order
    answers,    \* what each count-tokens request was answered with
    chatReq,    \* section-chat: the request (method, section content, API key, body)
    endCalls,   \* section-chat: the number of times the response was ended
    chatStatus, \* section-chat: the status of the response (0: none yet)
    streamCalls, \* section-chat: the number of calls of anthropic.messages.stream
    loading,    \* App: a strategy request is being made
    appResponse, \* App: the response state (type "none" for null)
    appError,   \* App: the error state (<<>> for null)
    answer,     \* ClarificationDialog: the answer state
    sent,       \* the /api/strategy requests the App has sent, in order
    flying,     \* the positions in `sent` of the requests not yet answered
    tokenCount, \* App: the tokenCount state
    countingTokens, \* App: the countingTokens state
    debouncedTextInput, \* App: the debounced text
    counts,     \* the /api/count-tokens requests of the effect: input and whether answered
    pendingAdds, \* FileUpload: the calls of checkAndAddFiles that await their estimate
    tokenWarning, \* FileUpload: the tokenWarning state (<<>> for null)
    checking,   \* FileUpload: the checking state
    chatControllers, \* StrategyDisplay: chatControllersRef.current, by tab (0: none)
    chatSessions, \* StrategyDisplay: the chatSessions state
    renderedSessions, \* the chatSessions of the last render, which the handlers close over
    chatRequests, \* the /api/section-chat requests started, in order
    payloadVersion \* the number of strategy payloads the display was given

parseVars == <<reply, pieces, outcome, response, ppc>>

lineVars == <<lineParts, rawLine, normalForm, lpc>>

appVars == <<textInput, wordCount, files>>

blobVars == <<appVars, parsedFiles, context, bpc>>

reqVars == <<env, method, rpc, tmpFiles, disk, calls, failures, status>>

chatVars == <<chatBody, chatRuns, conversation, cpc>>

answerVars == <<chatReq, endCalls, chatStatus, streamCalls>>

streamVars == <<produced, written, aborted, writableEnded, closed, spc, answerVars>>

tokenVars == <<tokenEnv, cachedBaselineTokens, tpc, baselineCalls, answers>>

strategyUiVars == <<loading, appResponse, appError, answer, sent, flying>>

countUiVars == <<tokenCount, countingTokens, debouncedTextInput, counts>>

pickerVars == <<pendingAdds, tokenWarning, checking>>

chatUiVars == <<chatControllers, chatSessions, renderedSessions, chatRequests, payloadVersion>>

uiVars == <<strategyUiVars, countUiVars, pickerVars, chatUiVars>>

serviceVars == <<reqVars, chatVars, streamVars, tokenVars, uiVars>>

vars == <<parseVars, lineVars, blobVars, serviceVars>>

-----------------------------------------------------------------------------
(* Characters and the JavaScript string primitives the code uses.          *)

WS == {" ", "\n", "\t"}

Digits == {"0", "1", "2", "3", "4", "5", "6", "7", "8", "9"}

UpperSeq ==
    <<"A","B","C","D","E","F","G","H","I","J","K","L","M",
      "N","O","P","Q","R","S","T","U","V","W","X","Y","Z">>

LowerSeq ==
    <<"a","b","c","d","e","f","g","h","i","j","k","l","m",
      "n","o","p","q","r","s","t","u","v","w","x","y","z">>

Range(s) == {s[i] : i \in 1..Len(s)}

UpperSet == Range(UpperSeq)

LowerSet == Range(LowerSeq)

LetterIndex(seq, c) == CHOOSE i \in 1..Len(seq) : seq[i] = c

MinOf(S) == CHOOSE x \in S : \A y \in S : x <= y

MaxOf(S) == CHOOSE x \in S : \A y \in S : x >= y

\* the least element of S, or d when S is empty
MinOr(S, d) == IF S = {} THEN d ELSE MinOf(S)

\* the positions of a text, in order
Positions(text) == [i \in 1..Len(text) |-> i]

\* a sequence of characters and gaps, without the gaps
NoChar == "NONE"

IsChar(c) == c # NoChar

Squeeze(cells) == SelectSeq(cells, IsChar)

\* String.prototype.toLowerCase on one character, as a pair of cells: U+0130
\* becomes two characters (i followed by a combining dot above).
LowerChar(c) ==
    IF c \in UpperSet THEN <<LowerSeq[LetterIndex(UpperSeq, c)], NoChar>>
    ELSE IF c = "I_DOT" THEN <<"i", "DOT_ABOVE">>
    ELSE <<c, NoChar>>

toLowerCase(text) ==
    Squeeze([k \in 1..(2 * Len(text)) |-> LowerChar(text[(k + 1) \div 2])[2 - (k % 2)]])

\* String.prototype.toUpperCase on one character, as a pair of cells: U+00DF
\* becomes "SS".
UpperChar(c) ==
    IF c \in LowerSet THEN <<UpperSeq[LetterIndex(LowerSeq, c)], NoChar>>
    ELSE IF c = "SHARP_S" THEN <<"S", "S">>
    ELSE <<c, NoChar>>

toUpperCase(text) ==
    Squeeze([k \in 1..(2 * Len(text)) |-> UpperChar(text[(k + 1) \div 2])[2 - (k % 2)]])

\* Canonicalize of a regular expression with the i flag and no u flag: one
\* character to one character, ASCII letters folded.
Canon(c) == IF c \in LowerSet THEN UpperSeq[LetterIndex(LowerSeq, c)] ELSE c

\* text.slice(from - 1, to): positions from .. to, clamped to the text.
Slice(text, from, to) ==
    IF from > to \/ from > Len(text) THEN <<>>
    ELSE IF to > Len(text) THEN SubSeq(text, from, Len(text))
    ELSE SubSeq(text, from, to)

\* text.slice(from - 1)
SliceFrom(text, from) == Slice(text, from, Len(text))

\* the positions of the characters trim keeps between
Inked(text) == {i \in 1..Len(text) : text[i] \notin WS}

\* String.prototype.trim
trim(text) ==
    IF Inked(text) = {} THEN <<>>
    ELSE SubSeq(text, MinOf(Inked(text)), MaxOf(Inked(text)))

StartsWithAt(text, i, pat) ==
    /\ i >= 1
    /\ i + Len(pat) - 1 <= Len(text)
    /\ \A k \in 1..Len(pat) : text[i + k - 1] = pat[k]

\* the same under the i flag
StartsWithAtI(text, i, pat) ==
    /\ i >= 1
    /\ i + Len(pat) - 1 <= Len(text)
    /\ \A k \in 1..Len(pat) : Canon(text[i + k - 1]) = Canon(pat[k])

\* text.indexOf(pat, from - 1) + 1
indexOf(text, pat, from) ==
    MinOr({i \in from..(Len(text) - Len(pat) + 1) : StartsWithAt(text, i, pat)}, 0)

\* the same search under the i flag
indexOfI(text, pat, from) ==
    MinOr({i \in from..(Len(text) - Len(pat) + 1) : StartsWithAtI(text, i, pat)}, 0)

endsWith(text, c) == text # <<>> /\ text[Len(text)] = c

\* the first position >= i whose character is not in S (Len + 1 if none)
SkipWhile(text, i, S) ==
    MinOr({k \in i..Len(text) : text[k] \notin S}, Len(text) + 1)

\* /<[^>]+>/g matches from left to right, so between two ">" the match
\* starts at the first "<", unless that "<" stands right before the ">".
\* The first "<" at or before position i with no ">" from it up to i (0 if
\* none):
FirstLtBefore(text, i) ==
    MinOr({f \in 1..i : text[f] = "<" /\ \A j \in f..(i - 1) : text[j] # ">"}, 0)

\* what text.replace(/<[^>]+>/g, rep) leaves of position i, f being
\* FirstLtBefore(text, i) and g the position of the first ">" from i on
TagCell(text, i, rep, f, g) ==
    IF f # 0 /\ g # 0 /\ f + 1 < g THEN (IF i = f THEN rep ELSE NoChar)
    ELSE text[i]

\* text.replace(/<[^>]+>/g, rep) for a replacement of one character
ReplaceTags(text, rep) ==
    Squeeze([i \in 1..Len(text) |->
                TagCell(text, i, rep, FirstLtBefore(text, i), indexOf(text, <<">">>, i))])

\* text.replace(/\s+/g, ' ')
CollapseWs(text) ==
    Squeeze([i \in 1..Len(text) |->
                IF text[i] \notin WS THEN text[i]
                ELSE IF i = 1 \/ text[i - 1] \notin WS THEN " "
                ELSE NoChar])

\* the run of asterisks position i stands in: its first and last position
StarRunStart(text, i) == MinOf({r \in 1..i : \A j \in r..i : text[j] = "*"})

StarRunEnd(text, i) == MaxOf({r \in i..Len(text) : \A j \in i..r : text[j] = "*"})

\* text.replace(/\*\*/g, ''): of a run of asterisks the pairs go, so the last
\* one of an odd run stays
StarCell(i, first, last) ==
    IF i = last /\ (last - first) % 2 = 0 THEN "*" ELSE NoChar

RemoveBold(text) ==
    Squeeze([i \in 1..Len(text) |->
                IF text[i] # "*" THEN text[i]
                ELSE StarCell(i, StarRunStart(text, i), StarRunEnd(text, i))])

\* the positions of the line breaks of a text, in order
LineBreaks(text) == SelectSeq(Positions(text), LAMBDA i : text[i] = "\n")

\* text.split('\n'), nls being LineBreaks(text)
SplitAt(text, nls) ==
    [k \in 1..(Len(nls) + 1) |->
        Slice(text,
              IF k = 1 THEN 1 ELSE nls[k - 1] + 1,
              IF k > Len(nls) THEN Len(text) ELSE nls[k] - 1)]

SplitLines(text) == SplitAt(text, LineBreaks(text))

-----------------------------------------------------------------------------
(* api/strategy.js: the tag names and fixed messages.                      *)

T_clarification_needed ==
    <<"c","l","a","r","i","f","i","c","a","t","i","o","n","_","n","e","e","d","e","d">>

T_full_plan == <<"f","u","l","l","_","p","l","a","n">>

T_cannot_proceed == <<"c","a","n","n","o","t","_","p","r","o","c","e","e","d">>

T_questions == <<"q","u","e","s","t","i","o","n","s">>

T_question == <<"q","u","e","s","t","i","o","n">>

T_thinking == <<"t","h","i","n","k","i","n","g">>

T_message == <<"m","e","s","s","a","g","e">>

T_proposal == <<"p","r","o","p","o","s","a","l">>

T_content_strategy ==
    <<"c","o","n","t","e","n","t","_","s","t","r","a","t","e","g","y">>

T_sample_ads == <<"s","a","m","p","l","e","_","a","d","s">>

SECTION_SEQUENCE == <<T_proposal, T_content_strategy, T_sample_ads>>

MAX_FALLBACK_QUESTIONS == 10

\* The fixed messages are never inspected character by character: each is
\* one symbol.
PARSER_PLACEHOLDER ==
    <<"BluePeak-AI requested clarification but did not return specific questions. Please refine your client brief and resubmit.">>

HANDLER_PLACEHOLDER ==
    <<"BluePeak-AI requested clarification but did not return specific questions. Please refine your input or try again.">>

DEFAULT_REFUSAL == <<"Cannot proceed without additional information.">>

EMPTY_RESPONSE_MESSAGE ==
    <<"Claude returned an empty response. Please check the server logs for details.">>

UNPARSED_MESSAGE == <<"Could not parse AI response. Please try again.">>

Open(tag) == <<"<">> \o tag \o <<">">>

Close(tag) == <<"<", "/">> \o tag \o <<">">>

-----------------------------------------------------------------------------
(* api/strategy.js: the extraction helpers.                                *)

\* /<tag(\s[^>]*)?>/i tried at position i: the position of its ">" or 0
OpeningEndAt(text, i, tag) ==
    IF ~StartsWithAtI(text, i, <<"<">> \o tag) \/ i + Len(tag) + 1 > Len(text) THEN 0
    ELSE IF text[i + Len(tag) + 1] = ">" THEN i + Len(tag) + 1
    ELSE IF text[i + Len(tag) + 1] \in WS THEN indexOf(text, <<">">>, i + Len(tag) + 2)
    ELSE 0

\* the least position an opening tag of tag starts at, or 0
FirstOpening(text, tag) ==
    MinOr({i \in 1..Len(text) : OpeningEndAt(text, i, tag) # 0}, 0)

\* an opening tag ends at e and a closing tag of the same name follows
ClosedAfter(text, e, tag) == e # 0 /\ indexOfI(text, Close(tag), e + 1) # 0

\* the trimmed group of the match whose opening tag starts at i (0: no match)
TagContentAt(text, i, tag, e) ==
    IF i = 0 THEN <<>>
    ELSE trim(Slice(text, e + 1, indexOfI(text, Close(tag), e + 1) - 1))

TagContentFrom(text, i, tag) ==
    TagContentAt(text, i, tag, IF i = 0 THEN 0 ELSE OpeningEndAt(text, i, tag))

\* new RegExp(`<${tag}(\\s[^>]*)?>([\\s\\S]*?)</${tag}>`, 'i').exec(text):
\* the leftmost position where the opening tag matches and a closing tag
\* follows it
TagContent(text, tag) ==
    TagContentFrom(text,
        MinOr({i \in 1..Len(text) : ClosedAfter(text, OpeningEndAt(text, i, tag), tag)}, 0),
        tag)

extractTagContent(text, tagName) ==
    IF text = <<>> \/ tagName = <<>> THEN <<>>
    ELSE TagContent(text, toLowerCase(tagName))

\* /^[-*•>\s]*\d{0,2}[).:-]?\s*/u, piece by piece: each operator gives the
\* first position its part of the expression leaves
DigitsEnd(line, a) ==
    IF a + 1 <= Len(line) /\ line[a] \in Digits /\ line[a + 1] \in Digits THEN a + 2
    ELSE IF a <= Len(line) /\ line[a] \in Digits THEN a + 1
    ELSE a

PunctEnd(line, b) ==
    IF b <= Len(line) /\ line[b] \in {")", ".", ":", "-"} THEN b + 1 ELSE b

MarkerEnd(line) ==
    SkipWhile(line,
        PunctEnd(line,
            DigitsEnd(line, SkipWhile(line, 1, {"-", "*", "BULLET", ">"} \cup WS))),
        WS)

\* /^question\s*[:.-]\s*/i : the first position it leaves (1 when no match);
\* a is the first position after "question" and the white space behind it
LabelEndGiven(line, a) ==
    IF a <= Len(line) /\ line[a] \in {":", ".", "-"}
    THEN SkipWhile(line, a + 1, WS)
    ELSE 1

LabelEnd(line) ==
    IF StartsWithAtI(line, 1, T_question)
    THEN LabelEndGiven(line, SkipWhile(line, Len(T_question) + 1, WS))
    ELSE 1

\* /^[A-Z]\)\s*/ : the first position it leaves (1 when no match)
LetterBulletEnd(line) ==
    IF Len(line) >= 2 /\ line[1] \in UpperSet /\ line[2] = ")"
    THEN SkipWhile(line, 3, WS)
    ELSE 1

StripMarker(line) == SliceFrom(line, MarkerEnd(line))

StripLabel(line) == SliceFrom(line, LabelEnd(line))

StripLetterBullet(line) == SliceFrom(line, LetterBulletEnd(line))

sanitizeQuestionLine(line) ==
    trim(RemoveBold(StripLetterBullet(StripLabel(StripMarker(line)))))

\* the positions of the question marks of a text
QuestionMarks(text) == {i \in 1..Len(text) : text[i] = "?"}

\* the end of normalizeQuestionText, from `trimmed` on
EnsureQuestionMark(trimmed) ==
    IF trimmed = <<>> THEN <<>>
    ELSE IF endsWith(trimmed, "?") THEN trimmed
    ELSE IF QuestionMarks(trimmed) # {}
    THEN trim(Slice(trimmed, 1, MaxOf(QuestionMarks(trimmed))))
    ELSE trimmed \o <<"?">>

\* an empty `sanitized` gives an empty `trimmed`, so that the two early
\* returns are one
normalizeQuestionText(text) ==
    IF text = <<>> THEN <<>>
    ELSE EnsureQuestionMark(
            trim(CollapseWs(
                sanitizeQuestionLine(CollapseWs(ReplaceTags(text, " "))))))

\* the list after `normalized` was offered to it, were the texts compared
\* as they are written
PushUniqueExact(questions, normalized) ==
    IF normalized = <<>> THEN questions
    ELSE IF \E k \in 1..Len(questions) : questions[k] = normalized
    THEN questions
    ELSE Append(questions, normalized)

\* the list after `normalized` was offered to it: an empty text and a text
\* whose lower-cased form was seen before are not added
PushUnique(questions, normalized) ==
    IF normalized = <<>> THEN questions
    ELSE IF \E k \in 1..Len(questions) :
                toLowerCase(questions[k]) = toLowerCase(normalized)
    THEN questions
    ELSE Append(questions, normalized)

\* the state of the loop of deriveQuestionsFromText after the pass over one
\* line: `normalized` is the normal form of the line, `next` the list after
\* it, `done` says that the loop was left through its break
DeriveNext(normalized, next) ==
    [questions |-> next,
     done |-> normalized # <<>> /\ Len(next) >= MAX_FALLBACK_QUESTIONS]

\* one pass of the loop; no line is looked at behind the break
DeriveStep(acc, normalized) ==
    IF acc.done THEN acc
    ELSE DeriveNext(normalized, PushUnique(acc.questions, normalized))

\* the passes over lines[lo..hi], in order, from the loop state acc; the
\* passes over the first half are completed before those over the second
RECURSIVE DeriveLoop(_, _, _, _)
DeriveLoop(lines, lo, hi, acc) ==
    IF lo > hi THEN acc
    ELSE IF lo = hi THEN DeriveStep(acc, normalizeQuestionText(lines[lo]))
    ELSE CHOOSE after \in {DeriveLoop(lines, ((lo + hi) \div 2) + 1, hi, half) :
                             half \in {DeriveLoop(lines, lo, (lo + hi) \div 2, acc)}} : TRUE

deriveQuestionsFromText(rawText) ==
    IF trim(rawText) = <<>> THEN <<>>
    ELSE CHOOSE derived \in
            {DeriveLoop(lines, 1, Len(lines), [questions |-> <<>>, done |-> FALSE]).questions :
                lines \in {SplitLines(ReplaceTags(rawText, "\n"))}} : TRUE

\* /<tag(\s|>)/i with the closing tag asked for too
HasOpeningAndClose(text, tag) ==
    \E i \in 1..Len(text) :
        /\ StartsWithAtI(text, i, <<"<">> \o tag)
        /\ i + Len(tag) + 1 <= Len(text)
        /\ text[i + Len(tag) + 1] \in WS \cup {">"}
        /\ indexOfI(text, Close(tag), i) # 0

\* /<tag(\s|>)/i
HasOpening(text, tag) ==
    \E i \in 1..Len(text) :
        /\ StartsWithAtI(text, i, <<"<">> \o tag)
        /\ i + Len(tag) + 1 <= Len(text)
        /\ text[i + Len(tag) + 1] \in WS \cup {">"}

hasTag(text, tagName) == HasOpening(text, toLowerCase(tagName))

-----------------------------------------------------------------------------
(* api/strategy.js: parseXMLResponse.                                      *)

\* text.match(/<name>([\s\S]*?)<\/name>/): <<>> when there is no match,
\* else the one-element sequence holding the trimmed group; i is the
\* position the match starts at (0: no match)
PlainBlockAt(text, name, i) ==
    IF i = 0 THEN <<>>
    ELSE <<trim(Slice(text, i + Len(name) + 2,
                      indexOf(text, Close(name), i + Len(name) + 2) - 1))>>

MatchPlainBlock(text, name) ==
    PlainBlockAt(text, name,
        MinOr({i \in 1..Len(text) :
                  /\ StartsWithAt(text, i, Open(name))
                  /\ indexOf(text, Close(name), i + Len(name) + 2) # 0}, 0))

\* /<question[^>]*>/i tried at position i: the position of its ">" or 0
QuestionOpeningEndAt(text, i) ==
    IF StartsWithAtI(text, i, <<"<">> \o T_question)
    THEN indexOf(text, <<">">>, i + Len(T_question) + 1)
    ELSE 0

\* one questionRegex.exec(text) of the /<question[^>]*>([\s\S]*?)<\/question>/gi
\* loop: st holds lastIndex (as a position), the groups of the matches so
\* far and whether exec has returned null; i is the position the next match
\* starts at (0: none), e the end of its opening tag, c the start of its
\* closing tag
QuestionMatchGiven(text, groups, e, c) ==
    [lastIndex |-> c + Len(Close(T_question)),
     groups |-> Append(groups, Slice(text, e + 1, c - 1)),
     done |-> FALSE]

QuestionMatchAt(text, st, i, e) ==
    IF i = 0 THEN [lastIndex |-> 1, groups |-> st.groups, done |-> TRUE]
    ELSE QuestionMatchGiven(text, st.groups, e, indexOfI(text, Close(T_question), e + 1))

QuestionMatchFrom(text, st, i) ==
    QuestionMatchAt(text, st, i, IF i = 0 THEN 0 ELSE QuestionOpeningEndAt(text, i))

exec(text, st) ==
    IF st.done THEN st
    ELSE QuestionMatchFrom(text, st,
            MinOr({i \in st.lastIndex..Len(text) :
                      ClosedAfter(text, QuestionOpeningEndAt(text, i), T_question)}, 0))

\* `count` successive passes of the while loop from the state st; the
\* first half of them is completed before the second
RECURSIVE ExecLoop(_, _, _)
ExecLoop(text, st, count) ==
    IF count <= 1 THEN exec(text, st)
    ELSE CHOOSE after \in {ExecLoop(text, half, count - (count \div 2)) :
                             half \in {ExecLoop(text, st, count \div 2)}} : TRUE

\* the groups of the successive matches from position p on; a match takes
\* a closing tag, and the loop ends with the exec behind the last match
QuestionMatchesFrom(text, p) ==
    ExecLoop(text, [lastIndex |-> p, groups |-> <<>>, done |-> FALSE],
             (Len(text) \div Len(Close(T_question))) + 1).groups

addQuestion(questions, rawText) == PushUnique(questions, normalizeQuestionText(rawText))

\* addQuestion called with raws[lo..hi], in order; the calls with the first
\* half are completed before those with the second
RECURSIVE AddRange(_, _, _, _)
AddRange(questions, raws, lo, hi) ==
    IF lo > hi THEN questions
    ELSE IF lo = hi THEN addQuestion(questions, raws[lo])
    ELSE CHOOSE after \in {AddRange(half, raws, ((lo + hi) \div 2) + 1, hi) :
                             half \in {AddRange(questions, raws, lo, (lo + hi) \div 2)}} : TRUE

\* the loops `while (exec) addQuestion(match[1])` and
\* `for (const fallbackQuestion of fallbackQuestions) addQuestion(...)`
AddAll(questions, raws) ==
    CHOOSE added \in {AddRange(first, given, 1, Len(given)) :
                        first \in {questions}, given \in {raws}} : TRUE

\* a || b on strings
OrElse(a, b) == IF a # <<>> THEN a ELSE b

\* the source the fallback questions are derived from
fallbackSource(text) ==
    OrElse(extractTagContent(text, T_questions),
           OrElse(extractTagContent(text, T_clarification_needed), text))

\* the question list before the placeholder is considered
CollectedQuestions(text) ==
    AddAll(AddAll(<<>>, QuestionMatchesFrom(text, 1)),
           deriveQuestionsFromText(fallbackSource(text)))

\* the question list as it would be without the placeholder
WithoutPlaceholder(questions) == questions

\* the placeholder substituted for an empty list
WithPlaceholder(questions) ==
    IF Len(questions) = 0 THEN <<PARSER_PLACEHOLDER>> ELSE questions

\* the section between contentStart and the closing tag found in the
\* lower-cased text, or else up to fallbackEnd
SectionGiven(text, contentStart, closingIndex, fallbackEnd) ==
    IF closingIndex # 0 THEN trim(Slice(text, contentStart, closingIndex - 1))
    ELSE trim(Slice(text, contentStart, fallbackEnd - 1))

\* the boundaries of the fallback: the opening of every later section of
\* SECTION_SEQUENCE and the closing of full_plan
NextTags(normalizedTag) ==
    {<<"<">> \o SECTION_SEQUENCE[k] :
        k \in {j \in 1..Len(SECTION_SEQUENCE) :
                  \E c \in 1..(j - 1) : SECTION_SEQUENCE[c] = normalizedTag}}
        \cup {<<"<", "/">> \o T_full_plan}

FallbackEnd(lowerText, normalizedTag, contentStart) ==
    MinOr({indexOf(lowerText, t, contentStart) : t \in NextTags(normalizedTag)} \ {0},
          Len(lowerText) + 1)

\* the opening tag is matched on the text; the closing tag and the fallback
\* boundaries are searched in text.toLowerCase(), and the indexes found
\* there cut the original text
SectionFrom(text, lowerText, normalizedTag, contentStart) ==
    SectionGiven(text, contentStart,
                 indexOf(lowerText, Close(normalizedTag), contentStart),
                 FallbackEnd(lowerText, normalizedTag, contentStart))

SectionAt(text, normalizedTag, i) ==
    IF i = 0 THEN <<>>
    ELSE SectionFrom(text, toLowerCase(text), normalizedTag,
                     OpeningEndAt(text, i, normalizedTag) + 1)

SectionOf(text, normalizedTag) ==
    SectionAt(text, normalizedTag, FirstOpening(text, normalizedTag))

extractSectionContent(text, tagName) == SectionOf(text, toLowerCase(tagName))

\* the branches as they would be with full_plan tested first
OutcomeTypeFullPlanFirst(text) ==
    IF text = <<>> \/ trim(text) = <<>> THEN "empty"
    ELSE IF hasTag(text, T_full_plan) THEN "full_plan"
    ELSE IF hasTag(text, T_clarification_needed) THEN "clarification_needed"
    ELSE IF hasTag(text, T_cannot_proceed) THEN "cannot_proceed"
    ELSE "unparsed"

\* the branch parseXMLResponse takes
OutcomeType(text) ==
    IF text = <<>> \/ trim(text) = <<>> THEN "empty"
    ELSE IF hasTag(text, T_clarification_needed) THEN "clarification_needed"
    ELSE IF hasTag(text, T_full_plan) THEN "full_plan"
    ELSE IF hasTag(text, T_cannot_proceed) THEN "cannot_proceed"
    ELSE "unparsed"

\* the message as it would be without the fixed refusal
MessageOrNothing(m, default) == IF m # <<>> THEN m[1] ELSE <<>>

\* messageMatch ? messageMatch[1].trim() : the fixed refusal
MessageOr(m, default) == IF m # <<>> THEN m[1] ELSE default

\* the outcome built in the branch taken; thinking is <<>> for null
OutcomeOf(text, branch, thinking) ==
    CASE branch = "empty" ->
            [type |-> "error", message |-> EMPTY_RESPONSE_MESSAGE]
      [] branch = "clarification_needed" ->
            [type |-> "clarification_needed",
             thinking |-> thinking,
             questions |-> WithPlaceholder(CollectedQuestions(text))]
      [] branch = "full_plan" ->
            [type |-> "full_plan",
             thinking |-> thinking,
             proposal |-> extractSectionContent(text, T_proposal),
             contentStrategy |-> extractSectionContent(text, T_content_strategy),
             sampleAds |-> extractSectionContent(text, T_sample_ads)]
      [] branch = "cannot_proceed" ->
            [type |-> "cannot_proceed",
             thinking |-> thinking,
             message |-> MessageOr(MatchPlainBlock(text, T_message), DEFAULT_REFUSAL)]
      [] OTHER ->
            [type |-> "error", message |-> UNPARSED_MESSAGE]

parseXMLResponse(text) ==
    OutcomeOf(text, OutcomeType(text), MatchPlainBlock(text, T_thinking))

\* the strategy handler's guard on the parsed response (the token count it
\* adds is not modelled here)
guardQuestions(parsedResponse) ==
    IF parsedResponse.type = "clarification_needed"
       /\ Len(parsedResponse.questions) = 0
    THEN [parsedResponse EXCEPT !.questions = <<HANDLER_PLACEHOLDER>>]
    ELSE parsedResponse

-----------------------------------------------------------------------------
(* The replies the parser is run on: up to MaxReplyPieces fragments, each  *)
(* a whole tag, a whole block or tag-free text, so that the tags a reply   *)
(* contains are exactly the tags of its fragments.                         *)

MaxReplyPieces == 3

P_ClarOpen == Open(T_clarification_needed)

P_ClarClose == Close(T_clarification_needed)

P_ClarAttr == <<"<">> \o toUpperCase(T_clarification_needed) \o <<" ", "i", "d", ">">>

P_ClarNear == <<"<">> \o T_clarification_needed \o <<"s", ">">>

P_FullPlan == Open(T_full_plan)

P_Cannot == Open(T_cannot_proceed)

P_Question == Open(T_question) \o <<"W", "h", "o", "?">> \o Close(T_question)

P_QuestionsOpen == Open(T_questions)

P_QuestionsClose == Close(T_questions)

P_Thinking == Open(T_thinking) \o <<"W", "h", "y">> \o Close(T_thinking)

P_Message == Open(T_message) \o <<" ", "N", "o", " ">> \o Close(T_message)

P_Line == <<"-", " ", "w", "h", "o">>

P_Text == <<"W", "h", "a", "t">>

P_Newline == <<"\n">>

ReplyPieces ==
    <<P_ClarOpen, P_ClarClose, P_ClarAttr, P_ClarNear, P_FullPlan, P_Cannot,
      P_Question, P_QuestionsOpen, P_QuestionsClose, P_Thinking, P_Message,
      P_Line, P_Text, P_Newline>>

NoOutcome == [type |-> "none"]

NoContext == [blob |-> <<>>, images |-> <<>>, pdfs |-> <<>>]

\* the variables of the line normalizer while another part is explored
IdleLine == lineParts = <<>> /\ rawLine = <<>> /\ normalForm = <<>> /\ lpc = "idle"

\* the variables of the App and of the context assembly while another part
\* is explored
IdleBlob ==
    /\ textInput = <<>>
    /\ wordCount = 0
    /\ files = <<>>
    /\ parsedFiles = <<>>
    /\ context = NoContext
    /\ bpc = "idle"

NoEnv == [apiKey |-> FALSE, thinking |-> FALSE]

\* the variables of a strategy request while another part is explored
IdleRequest ==
    /\ env = NoEnv
    /\ method = "NONE"
    /\ rpc = "idle"
    /\ tmpFiles = <<>>
    /\ disk = {}
    /\ calls = <<>>
    /\ failures = <<>>
    /\ status = 0

JsUndefined == [type |-> "undefined"]

\* the variables of a section-chat request while another part is explored
IdleChat ==
    /\ chatBody = JsUndefined
    /\ chatRuns = 0
    /\ conversation = <<>>
    /\ cpc = "idle"

\* the variables of a section-chat stream while another part is explored
IdleStream ==
    /\ produced = <<>>
    /\ written = <<>>
    /\ aborted = FALSE
    /\ writableEnded = FALSE
    /\ closed = FALSE
    /\ spc = "idle"
    /\ chatReq = [method |-> "POST", readable |-> TRUE, sectionContent |-> [type |-> "undefined"], apiKey |-> FALSE]
    /\ endCalls = 0
    /\ chatStatus = 0
    /\ streamCalls = 0

\* null, for a variable that holds null or a number of tokens
Null == -1

\* the variables of the token counter while another part is explored
IdleTokens ==
    /\ tokenEnv = FALSE
    /\ cachedBaselineTokens = Null
    /\ tpc = <<>>
    /\ baselineCalls = <<>>
    /\ answers = <<>>

\* the state of the App around a strategy request while another part is
\* explored
IdleStrategyUi ==
    /\ loading = FALSE
    /\ appResponse = [type |-> "none"]
    /\ appError = <<>>
    /\ answer = <<>>
    /\ sent = <<>>
    /\ flying = {}

\* the token count of the App while another part is explored
IdleCountUi ==
    /\ tokenCount = 0
    /\ countingTokens = FALSE
    /\ debouncedTextInput = <<>>
    /\ counts = <<>>

\* the state of FileUpload while another part is explored
IdlePicker ==
    /\ pendingAdds = <<>>
    /\ tokenWarning = <<>>
    /\ checking = FALSE

\* the section chats of the display while another part is explored
IdleChatUi ==
    /\ chatControllers = <<>>
    /\ chatSessions = <<>>
    /\ renderedSessions = <<>>
    /\ chatRequests = <<>>
    /\ payloadVersion = 0

IdleUi == IdleStrategyUi /\ IdleCountUi /\ IdlePicker /\ IdleChatUi

IdleService == IdleRequest /\ IdleChat /\ IdleStream /\ IdleTokens /\ IdleUi

\* the variables of the parser while another part is explored
IdleParse ==
    /\ reply = <<>>
    /\ pieces = <<>>
    /\ outcome = NoOutcome
    /\ response = NoOutcome
    /\ ppc = "idle"

InitParse ==
    /\ reply = <<>>
    /\ pieces = <<>>
    /\ outcome = NoOutcome
    /\ response = NoOutcome
    /\ ppc = "reply"
    /\ IdleLine
    /\ IdleBlob
    /\ IdleService

\* the model produces the next fragment of its reply
ProduceReply(p) ==
    /\ ppc = "reply"
    /\ Len(pieces) < MaxReplyPieces
    /\ reply' = reply \o p
    /\ pieces' = Append(pieces, p)
    /\ UNCHANGED <<outcome, response, ppc, lineVars, blobVars, serviceVars>>

\* the handler receives the complete reply, parses it and answers
StrategyHandler ==
    /\ ppc = "reply"
    /\ outcome' = parseXMLResponse(reply)
    /\ response' = guardQuestions(outcome')
    /\ ppc' = "answered"
    /\ UNCHANGED <<reply, pieces, lineVars, blobVars, serviceVars>>

NextParse ==
    \/ \E k \in 1..Len(ReplyPieces) : ProduceReply(ReplyPieces[k])
    \/ StrategyHandler

Spec == InitParse /\ [][NextParse]_vars

HasPiece(S) == \E i \in 1..Len(pieces) : pieces[i] \in S

ClarOpenings == {P_ClarOpen, P_ClarAttr}

OutcomeOpenings == ClarOpenings \cup {P_FullPlan, P_Cannot}

OutcomeTypes == {"clarification_needed", "full_plan", "cannot_proceed", "error"}

\* C1: a reply with an opening clarification_needed tag is answered with a
\* clarification_needed outcome whatever other outcome tags it holds; a reply
\* with full_plan and cannot_proceed but no clarification_needed is answered
\* with full_plan; the outcome is one of the four outcome types.
TagPrecedence ==
    ppc = "answered" =>
        /\ outcome.type \in OutcomeTypes
        /\ HasPiece(ClarOpenings) => outcome.type = "clarification_needed"
        /\ (~HasPiece(ClarOpenings) /\ HasPiece({P_FullPlan}) /\ HasPiece({P_Cannot}))
              => outcome.type = "full_plan"

AllThreeTagsParsed ==
    /\ ppc = "answered"
    /\ HasPiece(ClarOpenings) /\ HasPiece({P_FullPlan}) /\ HasPiece({P_Cannot})
    /\ outcome.type = "clarification_needed"

\* C2: a clarification_needed outcome, as parsed and as answered by the
\* handler, carries at least one question.
ClarificationNeverEmpty ==
    ppc = "answered" =>
        /\ outcome.type = "clarification_needed" => Len(outcome.questions) >= 1
        /\ response.type = "clarification_needed" => Len(response.questions) >= 1

PlaceholderAnswered ==
    /\ ppc = "answered"
    /\ outcome.type = "clarification_needed"
    /\ outcome.questions = <<PARSER_PLACEHOLDER>>
    /\ response.questions = <<PARSER_PLACEHOLDER>>

\* the reply has one clarification_needed block, complete and holding nothing
\* but line breaks; outside the block stand only a thinking block, tag-free
\* text and line breaks
BlankClarBlock ==
    \E i, j \in 1..Len(pieces) :
        /\ i < j
        /\ pieces[i] \in ClarOpenings
        /\ pieces[j] = P_ClarClose
        /\ \A k \in (i + 1)..(j - 1) : pieces[k] = P_Newline
        /\ \A k \in (1..Len(pieces)) \ (i..j) :
              pieces[k] \in {P_Thinking, P_Text, P_Newline}

\* C3: when the clarification_needed block holds no question tag and no
\* line a question can be derived from, the questions are exactly the one
\* placeholder, whatever stands outside the block.
BlankBlockGivesPlaceholder ==
    (ppc = "answered" /\ BlankClarBlock) => outcome.questions = <<PARSER_PLACEHOLDER>>

\* C5: the outcome is the error outcome exactly when the reply holds no
\* opening tag of the three outcomes (which covers the empty and the blank
\* reply); every other reply gets a productive outcome, closed or not, with
\* or without a thinking block.
ErrorIffNoOutcomeTag ==
    ppc = "answered" =>
        /\ outcome.type \in OutcomeTypes
        /\ outcome.type = "error" <=> ~HasPiece(OutcomeOpenings)
        /\ outcome.type = "error" =>
              outcome.message = IF trim(reply) = <<>> THEN EMPTY_RESPONSE_MESSAGE
                                ELSE UNPARSED_MESSAGE

UnclosedTagParsed ==
    /\ ppc = "answered"
    /\ pieces = <<P_Text, P_ClarAttr, P_Line>>
    /\ outcome.type = "clarification_needed"

-----------------------------------------------------------------------------
(* Full-plan replies: the opening full_plan tag followed by up to          *)
(* MaxPlanPieces fragments.                                                *)

MaxPlanPieces == 4

P_Proposal == Open(T_proposal) \o <<"A">>

P_ProposalAttr == <<"<">> \o toUpperCase(T_proposal) \o <<" ", "x", ">", "D", " ">>

P_ProposalClose == Close(T_proposal)

P_Content == Open(T_content_strategy) \o <<" ", "B">>

P_ContentClose == Close(T_content_strategy)

P_Ads == Open(T_sample_ads) \o <<"C", "\n">>

P_AdsClose == Close(T_sample_ads)

P_FullPlanClose == Close(T_full_plan)

P_IDot == <<"I_DOT">>

PlanPieces ==
    <<P_Proposal, P_ProposalAttr, P_ProposalClose, P_Content, P_ContentClose,
      P_Ads, P_AdsClose, P_FullPlanClose, P_IDot>>

InitPlan ==
    /\ reply = P_FullPlan
    /\ pieces = <<P_FullPlan>>
    /\ outcome = NoOutcome
    /\ response = NoOutcome
    /\ ppc = "reply"
    /\ IdleLine
    /\ IdleBlob
    /\ IdleService

\* the model produces the next fragment of its plan
ProducePlan(p) ==
    /\ ppc = "reply"
    /\ Len(pieces) < MaxPlanPieces + 1
    /\ reply' = reply \o p
    /\ pieces' = Append(pieces, p)
    /\ UNCHANGED <<outcome, response, ppc, lineVars, blobVars, serviceVars>>

NextPlan ==
    \/ \E k \in 1..Len(PlanPieces) : ProducePlan(PlanPieces[k])
    \/ StrategyHandler

SpecPlan == InitPlan /\ [][NextPlan]_vars

\* The section the claim describes, read off the reply itself: from the end
\* of the first opening tag to the closing tag if one follows, else to the
\* earliest later section opening, full_plan closing, or the end.
ClaimedBoundary(text, tag, start) ==
    MinOr(({indexOfI(text, <<"<">> \o SECTION_SEQUENCE[k], start) :
               k \in {j \in 1..Len(SECTION_SEQUENCE) :
                         \E c \in 1..(j - 1) : SECTION_SEQUENCE[c] = tag}}
            \cup {indexOfI(text, <<"<", "/">> \o T_full_plan, start)}) \ {0},
          Len(text) + 1)

ClaimedSectionGiven(text, tag, start, close) ==
    IF close # 0 THEN trim(Slice(text, start, close - 1))
    ELSE trim(Slice(text, start, ClaimedBoundary(text, tag, start) - 1))

ClaimedSectionFrom(text, tag, start) ==
    ClaimedSectionGiven(text, tag, start, indexOfI(text, Close(tag), start))

ClaimedSectionAt(text, tag, i) ==
    IF i = 0 THEN <<>> ELSE ClaimedSectionFrom(text, tag, OpeningEndAt(text, i, tag) + 1)

ClaimedSection(text, tag) == ClaimedSectionAt(text, tag, FirstOpening(text, tag))

SectionsAsClaimed ==
    /\ outcome.proposal = ClaimedSection(reply, T_proposal)
    /\ outcome.contentStrategy = ClaimedSection(reply, T_content_strategy)
    /\ outcome.sampleAds = ClaimedSection(reply, T_sample_ads)

\* C4: each section of a full plan is the trimmed text between its opening
\* and closing tag; with the closing tag missing it runs from the opening
\* tag to the earliest later section opening, the full_plan closing tag or
\* the end of the reply; an absent section is empty; the plan
\* <full_plan><proposal>A</proposal><content_strategy>B has proposal A,
\* contentStrategy B and no sampleAds.
PlanSectionsRecovered ==
    (ppc = "answered" /\ outcome.type = "full_plan") =>
        /\ SectionsAsClaimed
        /\ pieces = <<P_FullPlan, P_Proposal, P_ProposalClose, P_Content>> =>
              /\ outcome.proposal = <<"A">>
              /\ outcome.contentStrategy = <<"B">>
              /\ outcome.sampleAds = <<>>

\* the same for the replies in which no character changes length when
\* lower-cased
PlanSectionsRecoveredSameLength ==
    (ppc = "answered" /\ outcome.type = "full_plan" /\ ~HasPiece({P_IDot})) =>
        SectionsAsClaimed

UnclosedContentStrategyParsed ==
    /\ ppc = "answered"
    /\ pieces = <<P_FullPlan, P_Proposal, P_ProposalClose, P_Content>>
    /\ outcome.contentStrategy = <<"B">>

-----------------------------------------------------------------------------
(* Lines handed to normalizeQuestionText: up to MaxLinePieces fragments.   *)

MaxLinePieces == 3

L_Number == <<"1", ")", " ">>

L_Dash == <<"-", " ">>

L_Bullet == <<"BULLET", " ">>

L_Letter == <<"A", ")", " ">>

L_LongNumber == <<"1", "2", ".", "\t">>

L_BoldLabel == <<"*", "*", "Q", "u", "e", "s", "t", "i", "o", "n", ":", "*", "*", " ">>

L_Label == <<"q", "u", "e", "s", "t", "i", "o", "n", " ", "-", " ">>

L_Budget ==
    <<"w","h","a","t"," ","i","s"," ","t","h","e"," ","b","u","d","g","e","t">>

L_Audience ==
    <<"W","h","o"," ","i","s"," ","t","h","e"," ","a","u","d","i","e","n","c","e","?">>

L_Mark == <<"?">>

L_Spaces == <<" ", " ">>

L_Bold == <<"*", "*">>

L_Tag == <<"<", "b", ">">>

LinePieces ==
    <<L_Number, L_Dash, L_Bullet, L_Letter, L_LongNumber, L_BoldLabel, L_Label,
      L_Budget, L_Audience, L_Mark, L_Spaces, L_Bold, L_Tag>>

InitLine ==
    /\ lineParts = <<>>
    /\ rawLine = <<>>
    /\ normalForm = <<>>
    /\ lpc = "line"
    /\ IdleParse
    /\ IdleBlob
    /\ IdleService

\* the next fragment of the line
WriteLine(p) ==
    /\ lpc = "line"
    /\ Len(lineParts) < MaxLinePieces
    /\ lineParts' = Append(lineParts, p)
    /\ rawLine' = rawLine \o p
    /\ UNCHANGED <<normalForm, lpc, parseVars, blobVars, serviceVars>>

\* deriveQuestionsFromText and addQuestion normalize the line
NormalizeLine ==
    /\ lpc = "line"
    /\ normalForm' = normalizeQuestionText(rawLine)
    /\ lpc' = "done"
    /\ UNCHANGED <<lineParts, rawLine, parseVars, blobVars, serviceVars>>

NextLine ==
    \/ \E k \in 1..Len(LinePieces) : WriteLine(LinePieces[k])
    \/ NormalizeLine

SpecLine == InitLine /\ [][NextLine]_vars

\* no white space but single blanks between words
Collapsed(text) ==
    /\ \A i \in 1..Len(text) : text[i] \in WS => text[i] = " "
    /\ \A i \in 1..(Len(text) - 1) : ~(text[i] = " " /\ text[i + 1] = " ")
    /\ text # <<>> => (text[1] # " " /\ text[Len(text)] # " ")

\* C6: the normal form of a line is empty, or it has no bold markup, its
\* white space collapsed and exactly one question mark at its end;
\* "1) what is the budget" gives "what is the budget?" and
\* "**Question:** Who is the audience?" gives "Who is the audience?".
NormalFormOfLine ==
    lpc = "done" =>
        /\ normalForm # <<>> =>
              /\ endsWith(normalForm, "?")
              /\ Len(normalForm) >= 2 => normalForm[Len(normalForm) - 1] # "?"
              /\ \A i \in 1..Len(normalForm) : ~StartsWithAt(normalForm, i, <<"*", "*">>)
              /\ Collapsed(normalForm)
        /\ rawLine = L_Number \o L_Budget => normalForm = L_Budget \o <<"?">>
        /\ rawLine = L_BoldLabel \o L_Audience => normalForm = L_Audience

\* the same with any number of question marks at the end
NormalFormOfLineEndsWithMark ==
    lpc = "done" =>
        /\ normalForm # <<>> =>
              /\ endsWith(normalForm, "?")
              /\ \A i \in 1..Len(normalForm) : ~StartsWithAt(normalForm, i, <<"*", "*">>)
              /\ Collapsed(normalForm)
        /\ rawLine = L_Number \o L_Budget => normalForm = L_Budget \o <<"?">>
        /\ rawLine = L_BoldLabel \o L_Audience => normalForm = L_Audience

-----------------------------------------------------------------------------
(* api/file-processing.js and the word counter of the App. A long text is  *)
(* kept run-length encoded: a sequence of chunks, each a text `s` and the  *)
(* number `n` of times it is repeated, so that a text of 170,000 words can *)
(* be written down. `blob += x` appends the chunks of x.                   *)

Chunk(s, n) == [s |-> s, n |-> n]

Once(s) == <<Chunk(s, 1)>>

NonEmptyChunk(c) == c.n > 0 /\ c.s # <<>>

\* text.trim() is not the empty string
HasInk(text) == \E k \in 1..Len(text) : NonEmptyChunk(text[k]) /\ Inked(text[k].s) # {}

\* JavaScript values a text field can hold
JsString(text) == [type |-> "string", value |-> text]

JsArray(items) == [type |-> "array", items |-> items]

\* App: normalizeText
normalizeText(value) == IF value.type = "string" THEN value.value ELSE <<>>

\* the positions at which a word of s starts
WordStarts(s) == {i \in 1..Len(s) : s[i] \notin WS /\ (i = 1 \/ s[i - 1] \in WS)}

\* the last word of s and the first word of t are one word of s followed by t
Fused(s, t) == s[Len(s)] \notin WS /\ t[1] \notin WS

\* the words of a chunk: the words of its text, times n, less the words that
\* fuse where one repetition meets the next
ChunkWords(c) ==
    c.n * Cardinality(WordStarts(c.s)) - (IF Fused(c.s, c.s) THEN c.n - 1 ELSE 0)

RECURSIVE SumWords(_, _)
SumWords(chunks, k) ==
    IF k > Len(chunks) THEN 0
    ELSE ChunkWords(chunks[k])
         - (IF k > 1 /\ Fused(chunks[k - 1].s, chunks[k].s) THEN 1 ELSE 0)
         + SumWords(chunks, k + 1)

\* normalized.split(/\s+/).filter(word => word.length > 0).length of the
\* trimmed text (0 for the empty one): the number of maximal runs of
\* characters that are not white space
SplitCount(text) == SumWords(SelectSeq(text, NonEmptyChunk), 1)

\* App: countWords
countWords(value) == SplitCount(normalizeText(value))

\* the documented limit and the limit of the App's warning
MAX_WORDS == 170000

\* the first string of an array, Array.prototype.find
FirstString(items) ==
    IF \E i \in 1..Len(items) : items[i].type = "string"
    THEN items[MinOf({i \in 1..Len(items) : items[i].type = "string"})].value
    ELSE <<>>

normalizeTextInput(value) ==
    IF value.type = "string" THEN value.value
    ELSE IF value.type = "array" THEN FirstString(value.items)
    ELSE <<>>

AlphaNumeric == UpperSet \cup Digits

\* the label as it would be without the replacement
formatFileHeaderUpperOnly(filename) == toUpperCase(filename)

\* filename.toUpperCase().replace(/[^A-Z0-9]/g, '_')
formatFileHeader(filename) ==
    [i \in 1..Len(toUpperCase(filename)) |->
        IF toUpperCase(filename)[i] \in AlphaNumeric THEN toUpperCase(filename)[i] ELSE "_"]

EXT_pdf == <<"p", "d", "f">>

EXT_docx == <<"d", "o", "c", "x">>

SHEET_EXTENSIONS == {<<"x", "l", "s", "x">>, <<"x", "l", "s">>}

TEXT_EXTENSIONS == {<<"t", "x", "t">>, <<"m", "d">>, <<"c", "s", "v">>}

EXT_png == <<"p", "n", "g">>

EXT_gif == <<"g", "i", "f">>

IMAGE_EXTENSIONS == {<<"j", "p", "g">>, <<"j", "p", "e", "g">>, EXT_png, EXT_gif}

UPLOAD == <<"u", "p", "l", "o", "a", "d">>

\* error messages, each a text of one symbol
MISSING_FILEPATH == <<"Missing temporary filepath for uploaded file">>

READ_FAILURE == <<"message of the error thrown while the file was read">>

UNKNOWN_ERROR == <<"Unknown error">>

\* file.originalFilename || file.name || 'upload'
FilenameOf(file) == OrElse(OrElse(file.originalFilename, file.name), UPLOAD)

\* (filename.split('.').pop() || '').toLowerCase()
ExtensionOf(filename) ==
    toLowerCase(SliceFrom(filename,
        MaxOf({0} \cup {i \in 1..Len(filename) : filename[i] = "."}) + 1))

MimeType(ext) ==
    IF ext = EXT_png THEN "image/png"
    ELSE IF ext = EXT_gif THEN "image/gif"
    ELSE "image/jpeg"

TextEntry(filename, content) ==
    [type |-> "text", filename |-> filename, content |-> content]

ErrorEntry(filename, message) ==
    [type |-> "error", filename |-> filename, error |-> message]

\* fs.readFileSync(filepath).toString('base64'): the bytes are not modelled
readFileAsBase64(file) == <<"base64 of the bytes of the file">>

\* what one pass of the loop of parseUploadedFiles pushes for a file: reading
\* or parsing a file whose extension is handled may throw
EntriesOf(file, filename, ext) ==
    IF ~file.filepath THEN <<ErrorEntry(filename, MISSING_FILEPATH)>>
    ELSE IF ext \in {EXT_pdf, EXT_docx} \cup SHEET_EXTENSIONS \cup TEXT_EXTENSIONS \cup IMAGE_EXTENSIONS
            /\ ~file.readable
    THEN <<ErrorEntry(filename, READ_FAILURE)>>
    ELSE IF ext = EXT_pdf
    THEN IF file.underSizeLimit
         THEN <<[type |-> "pdf", filename |-> filename, data |-> readFileAsBase64(file)]>>
         ELSE <<TextEntry(filename, file.extracted)>>
    ELSE IF ext \in {EXT_docx} \cup SHEET_EXTENSIONS \cup TEXT_EXTENSIONS
    THEN <<TextEntry(filename, file.extracted)>>
    ELSE IF ext \in IMAGE_EXTENSIONS
    THEN <<[type |-> "image", filename |-> filename, data |-> readFileAsBase64(file),
            mimeType |-> MimeType(ext)]>>
    ELSE <<>>

\* the loop of parseUploadedFiles, were it left at the first exception
RECURSIVE ParseFromAborting(_, _)
ParseFromAborting(fileArray, k) ==
    IF k > Len(fileArray) THEN <<>>
    ELSE LET pushed == EntriesOf(fileArray[k], FilenameOf(fileArray[k]),
                                 ExtensionOf(FilenameOf(fileArray[k])))
         IN IF pushed # <<>> /\ pushed[1].type = "error" THEN pushed
            ELSE pushed \o ParseFromAborting(fileArray, k + 1)

RECURSIVE ParseFrom(_, _)
ParseFrom(fileArray, k) ==
    IF k > Len(fileArray) THEN <<>>
    ELSE EntriesOf(fileArray[k], FilenameOf(fileArray[k]),
                   ExtensionOf(FilenameOf(fileArray[k])))
         \o ParseFrom(fileArray, k + 1)

parseUploadedFiles(fileArray) == ParseFrom(fileArray, 1)

START_ == <<"-", "-", "-", "S", "T", "A", "R", "T", "_">>

END_ == <<"\n", "-", "-", "-", "E", "N", "D", "_">>

ERROR_PARSING_ == <<"-", "-", "-", "E", "R", "R", "O", "R", "_", "P", "A", "R", "S", "I", "N", "G", "_">>

DASHES_NL == <<"-", "-", "-", "\n">>

DASHES_NL_NL == <<"-", "-", "-", "\n", "\n">>

PASTED_TEXT == <<"P", "A", "S", "T", "E", "D", "_", "T", "E", "X", "T">>

ERROR_COLON == <<"E", "r", "r", "o", "r", ":", " ">>

\* what buildContextBlob adds to the blob for the pasted text
PastedBlock(normalizedInput) ==
    IF HasInk(normalizedInput)
    THEN Once(START_ \o PASTED_TEXT \o DASHES_NL)
         \o normalizedInput
         \o Once(END_ \o PASTED_TEXT \o DASHES_NL_NL)
    ELSE <<>>

\* what one pass of the loop would add, were every entry given a block
FileBlockOfAnyKind(entry) ==
    IF entry.type = "error"
    THEN Once(ERROR_PARSING_ \o formatFileHeader(entry.filename) \o DASHES_NL)
         \o Once(ERROR_COLON \o OrElse(entry.error, UNKNOWN_ERROR) \o <<"\n", "\n">>)
    ELSE Once(START_ \o formatFileHeader(entry.filename) \o DASHES_NL)
         \o (IF entry.type = "text" THEN entry.content ELSE <<>>)
         \o Once(END_ \o formatFileHeader(entry.filename) \o DASHES_NL_NL)

\* what one pass of the loop of buildContextBlob adds for an entry
FileBlock(entry) ==
    IF entry.type = "text"
    THEN Once(START_ \o formatFileHeader(entry.filename) \o DASHES_NL)
         \o entry.content
         \o Once(END_ \o formatFileHeader(entry.filename) \o DASHES_NL_NL)
    ELSE IF entry.type = "error"
    THEN Once(ERROR_PARSING_ \o formatFileHeader(entry.filename) \o DASHES_NL)
         \o Once(ERROR_COLON \o OrElse(entry.error, UNKNOWN_ERROR) \o <<"\n", "\n">>)
    ELSE <<>>

RECURSIVE FileBlocksFrom(_, _)
FileBlocksFrom(entries, k) ==
    IF k > Len(entries) THEN <<>>
    ELSE FileBlock(entries[k]) \o FileBlocksFrom(entries, k + 1)

IsImage(entry) == entry.type = "image"

IsPdf(entry) == entry.type = "pdf"

buildContextBlob(input, entries) ==
    [blob |-> PastedBlock(normalizeTextInput(input)) \o FileBlocksFrom(entries, 1),
     images |-> SelectSeq(entries, IsImage),
     pdfs |-> SelectSeq(entries, IsPdf)]

-----------------------------------------------------------------------------
(* The App composes an input (a text and up to MaxFiles files) and submits *)
(* it; the strategy handler parses the files and builds the context blob.  *)

MaxFiles == 2

Words(n) == <<Chunk(<<"w", "o", "r", "d", " ">>, n)>>

TypedTexts ==
    <<<<>>, Once(<<" ", "\n">>), Once(<<"h", "e", "l", "l", "o", " ", " ", "w", "o", "r", "l", "d">>),
      Words(MAX_WORDS - 1), Words(MAX_WORDS), Words(MAX_WORDS + 1)>>

C_One == Once(<<"o", "n", "e">>)

C_Ten == <<Chunk(<<"w", "\n">>, 10)>>

C_Fused == <<Chunk(<<"a", "b">>, 5), Chunk(<<"c", " ", "d">>, 1)>>

Upload(originalFilename, filepath, readable, underSizeLimit, extracted) ==
    [originalFilename |-> originalFilename, name |-> <<>>, filepath |-> filepath,
     readable |-> readable, underSizeLimit |-> underSizeLimit,
     extracted |-> extracted]

N_MyFile == <<"M", "y", " ", "F", "i", "l", "e", "(", "1", ")", ".", "M", "D">>

Uploads ==
    <<Upload(<<"a", ".", "t", "x", "t">>, TRUE, TRUE, TRUE, C_One),
      Upload(N_MyFile, TRUE, TRUE, TRUE, C_Ten),
      Upload(<<"s", "t", "r", "a", "SHARP_S", "e", ".", "c", "s", "v">>, TRUE, TRUE, TRUE, C_Fused),
      Upload(<<"7", ".", "m", "d">>, TRUE, TRUE, TRUE, <<>>),
      Upload(<<"b", "i", "g", ".", "P", "D", "F">>, TRUE, TRUE, FALSE, C_Ten),
      Upload(<<"x", ".", "p", "d", "f">>, TRUE, TRUE, TRUE, <<>>),
      Upload(<<"p", ".", "p", "n", "g">>, TRUE, TRUE, TRUE, <<>>),
      Upload(<<"n", ".", "d", "o", "c", "x">>, TRUE, FALSE, TRUE, <<>>),
      Upload(<<"q", ".", "e", "x", "e">>, TRUE, TRUE, TRUE, <<>>),
      Upload(<<>>, FALSE, TRUE, TRUE, <<>>)>>

InitBlob ==
    /\ textInput = <<>>
    /\ wordCount = 0
    /\ files = <<>>
    /\ parsedFiles = <<>>
    /\ context = NoContext
    /\ bpc = "compose"
    /\ IdleParse
    /\ IdleLine
    /\ IdleService

\* App: the input box changed
handleTextChange(value) ==
    /\ bpc = "compose"
    /\ textInput' = normalizeText(value)
    /\ wordCount' = countWords(JsString(textInput'))
    /\ UNCHANGED <<files, parsedFiles, context, bpc, parseVars, lineVars, serviceVars>>

\* App: the file list changed
handleFilesChange(newFiles) ==
    /\ bpc = "compose"
    /\ files' = newFiles
    /\ UNCHANGED <<textInput, wordCount, parsedFiles, context, bpc, parseVars, lineVars, serviceVars>>

\* FileUpload: a file was chosen or dropped
handleFileChange(newFile) ==
    /\ Len(files) < MaxFiles
    /\ handleFilesChange(files \o <<newFile>>)

\* FileUpload: the file at an index was removed
removeFile(index) ==
    handleFilesChange([i \in 1..(Len(files) - 1) |->
                          IF i < index THEN files[i] ELSE files[i + 1]])

\* App: the input is submitted, unless the button is disabled; the handler
\* normalizes the text field, parses the files and builds the blob
handleSubmit(fieldsText) ==
    /\ bpc = "compose"
    /\ HasInk(normalizeText(JsString(textInput))) \/ Len(files) # 0
    /\ parsedFiles' = parseUploadedFiles(files)
    /\ context' = buildContextBlob(JsString(normalizeTextInput(fieldsText)), parsedFiles')
    /\ bpc' = "built"
    /\ UNCHANGED <<appVars, parseVars, lineVars, serviceVars>>

NextBlob ==
    \/ \E k \in 1..Len(TypedTexts) : handleTextChange(JsString(TypedTexts[k]))
    \/ \E k \in 1..Len(Uploads) : handleFileChange(Uploads[k])
    \/ \E index \in 1..Len(files) : removeFile(index)
    \/ \E fieldsText \in {JsString(textInput), JsArray(<<JsString(textInput)>>)} :
          handleSubmit(fieldsText)

SpecBlob == InitBlob /\ [][NextBlob]_vars

EndsWithText(s, suffix) ==
    /\ Len(s) >= Len(suffix)
    /\ SubSeq(s, Len(s) - Len(suffix) + 1, Len(s)) = suffix

IsStartLine(c) == c.n = 1 /\ StartsWithAt(c.s, 1, START_) /\ EndsWithText(c.s, DASHES_NL)

IsEndLine(c) == c.n = 1 /\ StartsWithAt(c.s, 1, END_) /\ EndsWithText(c.s, DASHES_NL_NL)

IsErrorLine(c) ==
    c.n = 1 /\ StartsWithAt(c.s, 1, ERROR_PARSING_) /\ EndsWithText(c.s, DASHES_NL)

StartLabel(c) == Slice(c.s, Len(START_) + 1, Len(c.s) - Len(DASHES_NL))

EndLabel(c) == Slice(c.s, Len(END_) + 1, Len(c.s) - Len(DASHES_NL_NL))

ErrorLabel(c) == Slice(c.s, Len(ERROR_PARSING_) + 1, Len(c.s) - Len(DASHES_NL))

IsDelimiter(c) == IsStartLine(c) \/ IsEndLine(c) \/ IsErrorLine(c)

\* the positions of the START lines of a blob, in order
StartLines(b) == SelectSeq(Positions(b), LAMBDA i : IsStartLine(b[i]))

ErrorLines(b) == SelectSeq(Positions(b), LAMBDA i : IsErrorLine(b[i]))

\* the position of the first delimiter line after position i (0 if none)
NextDelimiter(b, i) == MinOr({j \in (i + 1)..Len(b) : IsDelimiter(b[j])}, 0)

\* what stands between the START line at position i and the next delimiter
Section(b, i) ==
    IF NextDelimiter(b, i) = 0 THEN SubSeq(b, i + 1, Len(b))
    ELSE SubSeq(b, i + 1, NextDelimiter(b, i) - 1)

RECURSIVE SectionWordsFrom(_, _, _)
SectionWordsFrom(b, starts, k) ==
    IF k > Len(starts) THEN 0
    ELSE SplitCount(Section(b, starts[k])) + SectionWordsFrom(b, starts, k + 1)

\* the words of the pasted text and of the file contents in a blob
EmbeddedWords(b) == SectionWordsFrom(b, StartLines(b), 1)

IsText(entry) == entry.type = "text"

IsError(entry) == entry.type = "error"

TextEntries == SelectSeq(parsedFiles, IsText)

PastedSections == IF HasInk(textInput) THEN 1 ELSE 0

\* C7: the words of the pasted text and of the embedded file contents in the
\* blob are never more than 170,000.
BlobWithinWordCeiling ==
    bpc = "built" => EmbeddedWords(context.blob) <= MAX_WORDS

RECURSIVE WordsBefore(_, _)
WordsBefore(entries, k) ==
    IF k <= 1 THEN SplitCount(textInput)
    ELSE WordsBefore(entries, k - 1) + SplitCount(entries[k - 1].content)

\* the text entry whose content takes the running count past the ceiling
Overflows(entries, k) ==
    /\ WordsBefore(entries, k) <= MAX_WORDS
    /\ WordsBefore(entries, k) + SplitCount(entries[k].content) > MAX_WORDS

TRUNCATED == <<"[", "T", "R", "U", "N", "C", "A", "T", "E", "D", "]">>

HasMarker(c) == indexOf(c.s, TRUNCATED, 1) # 0

NoMarker(c) == ~HasMarker(c)

\* the START lines of the files: those after the one of the pasted text
FileStarts(b) == SubSeq(StartLines(b), PastedSections + 1, Len(StartLines(b)))

\* the words of the k-th file section of the blob, the marker not counted
FileSectionWords(b, k) == SplitCount(SelectSeq(Section(b, FileStarts(b)[k]), NoMarker))

TruncatedAtFile(b, entries, k) ==
    /\ Len(FileStarts(b)) = k
    /\ \A j \in 1..(k - 1) : FileSectionWords(b, j) = SplitCount(entries[j].content)
    /\ FileSectionWords(b, k) = MAX_WORDS - WordsBefore(entries, k)
    /\ \E i \in 1..Len(b) : HasMarker(b[i])

NothingTruncated(b, entries) ==
    /\ Len(FileStarts(b)) = Len(entries)
    /\ \A j \in 1..Len(entries) : FileSectionWords(b, j) = SplitCount(entries[j].content)
    /\ \A i \in 1..Len(b) : ~HasMarker(b[i])

\* C8: the text file that takes the running word count past the ceiling is
\* cut to the words still in the budget and marked [TRUNCATED], the files
\* after it are dropped; files that fit are whole and nothing is marked: after
\* 169,999 pasted words a file of 10 words gives 1 word, a file of 1 word is
\* whole.
TruncationBoundary ==
    (bpc = "built" /\ SplitCount(textInput) <= MAX_WORDS) =>
        /\ \A k \in 1..Len(TextEntries) :
              Overflows(TextEntries, k) => TruncatedAtFile(context.blob, TextEntries, k)
        /\ (\A k \in 1..Len(TextEntries) : ~Overflows(TextEntries, k))
              => NothingTruncated(context.blob, TextEntries)
        /\ (textInput = Words(MAX_WORDS - 1) /\ Len(TextEntries) = 1)
              => FileSectionWords(context.blob, 1) = 1

LabelChars == UpperSet \cup Digits \cup {"_"}

\* C9: every label the blob carries in a START or ERROR_PARSING line is made
\* of A-Z, 0-9 and "_" only; the delimiter that follows a START line is an
\* END line with the same label; every text entry has its START line and
\* every error entry its ERROR_PARSING line.
DelimiterLabelsRoundTrip ==
    bpc = "built" =>
        /\ \A i \in 1..Len(context.blob) :
              /\ IsStartLine(context.blob[i]) =>
                    /\ Range(StartLabel(context.blob[i])) \subseteq LabelChars
                    /\ NextDelimiter(context.blob, i) # 0
                    /\ IsEndLine(context.blob[NextDelimiter(context.blob, i)])
                    /\ EndLabel(context.blob[NextDelimiter(context.blob, i)])
                          = StartLabel(context.blob[i])
              /\ IsErrorLine(context.blob[i]) =>
                    Range(ErrorLabel(context.blob[i])) \subseteq LabelChars
        /\ Len(StartLines(context.blob)) = PastedSections + Len(TextEntries)
        /\ Len(ErrorLines(context.blob)) = Len(SelectSeq(parsedFiles, IsError))

L_MyFile == <<"M", "Y", "_", "F", "I", "L", "E", "_", "1", "_", "_", "M", "D">>

SanitizedLabelWritten ==
    /\ bpc = "built"
    /\ \E k \in 1..Len(parsedFiles) :
          IsText(parsedFiles[k]) /\ parsedFiles[k].filename = N_MyFile
    /\ \E i \in 1..Len(context.blob) :
          /\ IsStartLine(context.blob[i])
          /\ StartLabel(context.blob[i]) = L_MyFile
          /\ \E j \in (i + 1)..Len(context.blob) :
                IsEndLine(context.blob[j]) /\ EndLabel(context.blob[j]) = L_MyFile

MinNat(a, b) == IF a <= b THEN a ELSE b

\* C10: the count shown under the input box is the count the limit is
\* enforced with: of a submitted text without text files, the blob holds the
\* words the displayed count puts within the limit of 170,000, and no more.
DisplayedCountIsEnforced ==
    (bpc = "built" /\ Len(TextEntries) = 0) =>
        /\ wordCount = SplitCount(textInput)
        /\ EmbeddedWords(context.blob) = MinNat(wordCount, MAX_WORDS)

-----------------------------------------------------------------------------
(* api/strategy.js, handler: one request from its arrival to its answer.   *)
(* The handler is cut at its awaits: the form is parsed, the files are     *)
(* parsed and the tokens counted, the completion is requested and          *)
(* answered, and possibly requested and answered once more.                *)

MaxUploads == 2

\* an error thrown by the SDK: error.error?.message and error.message
ApiError(inner, message) == [inner |-> inner, message |-> message]

\* extractErrorMessage
extractErrorMessage(error) ==
    IF error.inner.type = "string" THEN error.inner.value
    ELSE IF error.message.type = "string" THEN error.message.value
    ELSE <<>>

\* String.prototype.includes
includes(text, pat) == indexOf(text, pat, 1) # 0

RETRY_KEYWORDS ==
    {<<"t", "h", "i", "n", "k", "i", "n", "g">>, <<"b", "u", "d", "g", "e", "t", "_", "t", "o", "k", "e", "n", "s">>, <<"u", "n", "k", "n", "o", "w", "n", " ", "k", "e", "y", ":", " ", "t", "h", "i", "n", "k", "i", "n", "g">>,
     <<"e", "x", "t", "e", "n", "d", "e", "d", " ", "t", "h", "i", "n", "k", "i", "n", "g">>, <<"p", "a", "r", "a", "m", "e", "t", "e", "r", " ", "t", "h", "i", "n", "k", "i", "n", "g">>}

\* shouldRetryWithoutThinking without the test of THINKING_CONFIG
MatchesRetryKeyword(error, thinkingConfig) ==
    /\ extractErrorMessage(error) # <<>>
    /\ \E kw \in RETRY_KEYWORDS : includes(toLowerCase(extractErrorMessage(error)), kw)

shouldRetryWithoutThinking(error, thinkingConfig) ==
    /\ thinkingConfig
    /\ extractErrorMessage(error) # <<>>
    /\ \E kw \in RETRY_KEYWORDS : includes(toLowerCase(extractErrorMessage(error)), kw)

E_Thinking == ApiError(JsString(<<"E", "x", "t", "e", "n", "d", "e", "d", " ", "T", "H", "I", "N", "K", "I", "N", "G", " ", "i", "s", " ", "o", "f", "f">>), JsString(<<"4", "0", "0">>))

E_Budget == ApiError(JsUndefined, JsString(<<"b", "u", "d", "g", "e", "t", "_", "t", "o", "k", "e", "n", "s", " ", "t", "o", "o", " ", "l", "o", "w">>))

E_RateLimit == ApiError(JsString(<<"r", "a", "t", "e", " ", "l", "i", "m", "i", "t">>), JsString(<<"4", "2", "9">>))

E_Overloaded == ApiError(JsUndefined, JsString(<<"O", "v", "e", "r", "l", "o", "a", "d", "e", "d">>))

E_NoMessage == ApiError(JsUndefined, JsUndefined)

ApiErrors == <<E_Thinking, E_Budget, E_RateLimit, E_Overloaded, E_NoMessage>>

\* the replies a completion is answered with
R_Plan == Open(T_full_plan) \o Open(T_proposal) \o <<"A">>

R_Clarify == Open(T_clarification_needed) \o <<"W", "h", "o">>

Completions == <<R_Plan, R_Clarify, <<>>>>

InitRequest ==
    /\ env \in [apiKey : BOOLEAN, thinking : BOOLEAN]
    /\ method \in {"POST", "GET"}
    /\ rpc = "request"
    /\ tmpFiles = <<>>
    /\ disk = {}
    /\ calls = <<>>
    /\ failures = <<>>
    /\ status = 0
    /\ IdleChat
    /\ IdleStream
    /\ IdleTokens
    /\ IdleUi
    /\ IdleParse
    /\ IdleLine
    /\ IdleBlob

\* a request that is not a POST is rejected
RejectMethod ==
    /\ rpc = "request"
    /\ method # "POST"
    /\ status' = 405
    /\ rpc' = "done"
    /\ UNCHANGED <<env, method, tmpFiles, disk, calls, failures, chatVars, streamVars, parseVars, lineVars, blobVars, tokenVars, uiVars>>

\* form.parse fails: the outer catch answers 500
FormFails ==
    /\ rpc = "request"
    /\ method = "POST"
    /\ status' = 500
    /\ rpc' = "done"
    /\ UNCHANGED <<env, method, tmpFiles, disk, calls, failures, chatVars, streamVars, parseVars, lineVars, blobVars, tokenVars, uiVars>>

\* form.parse has written n uploads to temporary files; the files are
\* parsed and the blob is built; without an API key the handler answers 500
FormParsed(n) ==
    /\ rpc = "request"
    /\ method = "POST"
    /\ tmpFiles' = [i \in 1..n |-> i]
    /\ disk' = 1..n
    /\ IF env.apiKey
       THEN rpc' = "counting" /\ status' = status
       ELSE rpc' = "done" /\ status' = 500
    /\ UNCHANGED <<env, method, calls, failures, chatVars, streamVars, parseVars, lineVars, blobVars, tokenVars, uiVars>>

\* countTokens has answered or failed (it catches its errors); the first
\* completion is requested
RequestCompletion ==
    /\ rpc = "counting"
    /\ calls' = <<[thinking |-> env.thinking]>>
    /\ rpc' = "first"
    /\ UNCHANGED <<env, method, tmpFiles, disk, failures, status, chatVars, streamVars, parseVars, lineVars, blobVars, tokenVars, uiVars>>

\* the files of fileArray are unlinked
CleanedUp(paths, onDisk) == onDisk \ Range(paths)

\* a completion is answered with a message: the reply is parsed, the files
\* are cleaned up and the handler answers 200
CompletionAnswered(responseText) ==
    /\ rpc \in {"first", "second"}
    /\ reply' = responseText
    /\ outcome' = parseXMLResponse(responseText)
    /\ response' = guardQuestions(outcome')
    /\ disk' = CleanedUp(tmpFiles, disk)
    /\ status' = 200
    /\ rpc' = "done"
    /\ UNCHANGED <<env, method, tmpFiles, calls, failures, pieces, ppc, chatVars, streamVars, lineVars, blobVars, tokenVars, uiVars>>

\* the first completion is rejected: the request is sent again without
\* the thinking parameter, or the outer catch answers 500
FirstRejected(error) ==
    /\ rpc = "first"
    /\ failures' = Append(failures, error)
    /\ IF shouldRetryWithoutThinking(error, env.thinking)
       THEN /\ calls' = Append(calls, [thinking |-> FALSE])
            /\ rpc' = "second"
            /\ status' = status
       ELSE /\ calls' = calls
            /\ rpc' = "done"
            /\ status' = 500
    /\ UNCHANGED <<env, method, tmpFiles, disk, chatVars, streamVars, parseVars, lineVars, blobVars, tokenVars, uiVars>>

\* the second completion is rejected: the outer catch answers 500
SecondRejected(error) ==
    /\ rpc = "second"
    /\ failures' = Append(failures, error)
    /\ status' = 500
    /\ rpc' = "done"
    /\ UNCHANGED <<env, method, tmpFiles, disk, calls, chatVars, streamVars, parseVars, lineVars, blobVars, tokenVars, uiVars>>

NextRequest ==
    \/ RejectMethod
    \/ FormFails
    \/ \E n \in 0..MaxUploads : FormParsed(n)
    \/ RequestCompletion
    \/ \E k \in 1..Len(Completions) : CompletionAnswered(Completions[k])
    \/ \E k \in 1..Len(ApiErrors) : FirstRejected(ApiErrors[k])
    \/ \E k \in 1..Len(ApiErrors) : SecondRejected(ApiErrors[k])

SpecRequest == InitRequest /\ [][NextRequest]_vars

\* the errors whose message holds a keyword about thinking
ThinkingErrors == {E_Thinking, E_Budget}

\* C11: at most two completions are requested; a second one only with
\* extended thinking enabled and a first error about thinking, and it carries
\* no thinking parameter; after any other first error and after any error of
\* the second request the handler has answered 500; once the handler has
\* answered, no completion is requested.
AtMostOneRetry ==
    /\ Len(calls) <= 2
    /\ Len(calls) = 2 =>
          /\ env.thinking
          /\ calls[1].thinking
          /\ ~calls[2].thinking
          /\ failures # <<>> /\ failures[1] \in ThinkingErrors
    /\ (Len(failures) >= 1 /\ ~(env.thinking /\ failures[1] \in ThinkingErrors)) =>
          (Len(calls) = 1 /\ rpc = "done" /\ status = 500)
    /\ Len(failures) = 2 => (Len(calls) = 2 /\ rpc = "done" /\ status = 500)
    /\ rpc = "done" => Len(calls) <= Len(failures) + 1

RetriedWithoutThinking ==
    /\ rpc = "done"
    /\ Len(calls) = 2
    /\ failures = <<E_Thinking>>
    /\ status = 200

\* C12: once the handler has answered, none of the temporary files of the
\* request exists.
NoUploadOutlivesRequest ==
    rpc = "done" => disk = {}

-----------------------------------------------------------------------------
(* api/section-chat.js: the history a section-chat request forwards.       *)

MAX_HISTORY_MESSAGES == 12

MaxRuns == 3

MaxMessages == Len(LowerSeq)

JsNull == [type |-> "null"]

JsObject(role, content) == [type |-> "object", role |-> role, content |-> content]

\* the test of the filter of sanitizeMessages
IsTurn(msg) ==
    /\ msg.type = "object"
    /\ msg.content.type = "string"
    /\ Len(trim(msg.content.value)) > 0
    /\ (msg.role = "user" \/ msg.role = "assistant")

\* the object the map of sanitizeMessages makes of a message
Turn(msg) ==
    [role |-> IF msg.role = "assistant" THEN "assistant" ELSE "user",
     content |-> trim(msg.content.value)]

MapSeq(s, Op(_)) == [i \in 1..Len(s) |-> Op(s[i])]

\* Array.prototype.slice(0, n)
SliceFirst(s, n) == SubSeq(s, 1, IF Len(s) < n THEN Len(s) ELSE n)

\* Array.prototype.slice(-n)
SliceLast(s, n) == SubSeq(s, (IF Len(s) - n < 0 THEN 0 ELSE Len(s) - n) + 1, Len(s))

sanitizeMessages(messages) ==
    IF messages.type = "array"
    THEN SliceLast(MapSeq(SelectSeq(messages.items, IsTurn), Turn), MAX_HISTORY_MESSAGES)
    ELSE <<>>

CONTEXT_MESSAGE == [role |-> "user", content |-> <<"buildSectionChatContext">>]

\* the conversation of the handler: the section context, then the history
ConversationOf(messages) == <<CONTEXT_MESSAGE>> \o messages

\* the i-th message of a body, of one of six kinds; its content names i
ChatMessage(kind, i) ==
    IF kind = "user" THEN JsObject("user", JsString(<<" ", "u", LowerSeq[i]>>))
    ELSE IF kind = "assistant" THEN JsObject("assistant", JsString(<<"a", LowerSeq[i], "\n">>))
    ELSE IF kind = "blank" THEN JsObject("user", JsString(<<" ", "\n">>))
    ELSE IF kind = "system" THEN JsObject("system", JsString(<<"s", LowerSeq[i]>>))
    ELSE IF kind = "object" THEN JsObject("user", JsObject("user", JsNull))
    ELSE JsNull

MessageKinds == {"user", "assistant", "blank", "system", "object", "null"}

RunLengths == {1, MAX_HISTORY_MESSAGES}

\* body.messages is an array, or the request carries none
InitHistory ==
    /\ chatBody \in {JsArray(<<>>), JsUndefined}
    /\ chatRuns = 0
    /\ conversation = <<>>
    /\ cpc = "compose"
    /\ IdleStream
    /\ IdleTokens
    /\ IdleUi
    /\ IdleRequest
    /\ IdleParse
    /\ IdleLine
    /\ IdleBlob

\* the client adds n messages of a kind to the body of its request
ComposeMessages(kind, n) ==
    /\ cpc = "compose"
    /\ chatBody.type = "array"
    /\ Len(chatBody.items) + n <= MaxMessages
    /\ chatRuns < MaxRuns
    /\ chatRuns' = chatRuns + 1
    /\ chatBody' = JsArray(chatBody.items \o
                      [j \in 1..n |-> ChatMessage(kind, Len(chatBody.items) + j)])
    /\ UNCHANGED <<conversation, cpc, reqVars, streamVars, parseVars, lineVars, blobVars, tokenVars, uiVars>>

\* the handler sanitizes body.messages and builds the conversation
BuildConversation ==
    /\ cpc = "compose"
    /\ conversation' = ConversationOf(sanitizeMessages(chatBody))
    /\ cpc' = "built"
    /\ UNCHANGED <<chatBody, chatRuns, reqVars, streamVars, parseVars, lineVars, blobVars, tokenVars, uiVars>>

NextHistory ==
    \/ \E kind \in MessageKinds, n \in RunLengths : ComposeMessages(kind, n)
    \/ BuildConversation

SpecHistory == InitHistory /\ [][NextHistory]_vars

\* the positions of the messages of the body that are turns of the dialogue:
\* the role is user or assistant, the content a string that is not blank
ValidPositions ==
    IF chatBody.type = "array"
    THEN SelectSeq([i \in 1..Len(chatBody.items) |-> i],
                   LAMBDA i : LET msg == chatBody.items[i] IN
                       /\ msg.type = "object"
                       /\ msg.role \in {"user", "assistant"}
                       /\ msg.content.type = "string"
                       /\ \E k \in 1..Len(msg.content.value) : msg.content.value[k] \notin WS)
    ELSE <<>>

History == Tail(conversation)

\* C13: the history forwarded to the model holds at most 12 turns; it is the
\* last 12 valid messages of the body (all of them when there are fewer), in
\* their order, each with its role and its content trimmed.
HistoryIsLastTwelveValid ==
    cpc = "built" =>
        LET valid == ValidPositions
            kept == IF Len(valid) < 12 THEN Len(valid) ELSE 12
        IN /\ Len(conversation) = 1 + kept
           /\ conversation[1] = CONTEXT_MESSAGE
           /\ \A j \in 1..kept :
                 LET msg == chatBody.items[valid[Len(valid) - kept + j]] IN
                 /\ History[j].role = msg.role
                 /\ History[j].content = trim(msg.content.value)

\* more than 12 valid messages, with messages that are not valid among them
HistoryCutToTwelve ==
    /\ cpc = "built"
    /\ Len(ValidPositions) > 12
    /\ Len(ValidPositions) < Len(chatBody.items)
    /\ ValidPositions[Len(ValidPositions)] < Len(chatBody.items)
    /\ Len(History) = 12

-----------------------------------------------------------------------------
(* api/section-chat.js: the callbacks of the handler on the model stream   *)
(* and on the request.                                                     *)

MaxChunks == 3

Chunks == {<<"H", "e", "l">>, <<"l", "o">>}

\* the requests the handler is given
ChatRequests ==
    [method : {"POST", "GET"}, readable : BOOLEAN,
     sectionContent : {JsUndefined, JsString(<<>>), JsString(<<" ">>), JsString(<<" ", "p", " ">>)},
     apiKey : BOOLEAN]

InitStream ==
    /\ produced = <<>>
    /\ written = <<>>
    /\ aborted = FALSE
    /\ writableEnded = FALSE
    /\ closed = FALSE
    /\ spc = "arrived"
    /\ chatReq \in ChatRequests
    /\ endCalls = 0
    /\ chatStatus = 0
    /\ streamCalls = 0
    /\ IdleChat
    /\ IdleTokens
    /\ IdleUi
    /\ IdleRequest
    /\ IdleParse
    /\ IdleLine
    /\ IdleBlob

\* res.status(code).json(...): the response is answered and ended
Answered(code) ==
    /\ chatStatus' = code
    /\ writableEnded' = TRUE
    /\ endCalls' = endCalls + 1

\* the handler up to the creation of the stream: the method, the body, the
\* section content and the API key are tested in this order
HandlerStarts ==
    LET sectionContent == IF chatReq.sectionContent.type = "string"
                          THEN trim(chatReq.sectionContent.value) ELSE <<>>
    IN
    /\ spc = "arrived"
    /\ IF chatReq.method # "POST" THEN spc' = "rejected" /\ Answered(405)
       ELSE IF ~chatReq.readable THEN spc' = "rejected" /\ Answered(500)
       ELSE IF sectionContent = <<>> THEN spc' = "rejected" /\ Answered(400)
       ELSE IF ~chatReq.apiKey THEN spc' = "rejected" /\ Answered(500)
       ELSE spc' = "start" /\ UNCHANGED <<chatStatus, writableEnded, endCalls>>
    /\ UNCHANGED <<produced, written, aborted, closed, chatReq, streamCalls, chatVars, reqVars, parseVars, lineVars, blobVars, tokenVars, uiVars>>

\* anthropic.messages.stream throws: the handler answers 500
StreamFailsToStart ==
    /\ spc = "start"
    /\ spc' = "failed"
    /\ streamCalls' = streamCalls + 1
    /\ Answered(500)
    /\ UNCHANGED <<produced, written, aborted, closed, chatReq, chatVars, reqVars, parseVars, lineVars, blobVars, tokenVars, uiVars>>

\* the stream is created, the head written and the callbacks registered
StreamStarts ==
    /\ spc = "start"
    /\ spc' = "streaming"
    /\ streamCalls' = streamCalls + 1
    /\ chatStatus' = 200
    /\ UNCHANGED <<produced, written, aborted, writableEnded, closed, chatReq, endCalls, chatVars, reqVars, parseVars, lineVars, blobVars, tokenVars, uiVars>>

\* stream.on('text'): the chunk is written at once; a write that throws
\* aborts the stream
OnText(textChunk, writeThrows) ==
    /\ spc = "streaming"
    /\ ~aborted
    /\ Len(produced) < MaxChunks
    /\ produced' = Append(produced, [chunk |-> textChunk, throws |-> writeThrows])
    /\ written' = IF writeThrows THEN written ELSE Append(written, textChunk)
    /\ aborted' = writeThrows
    /\ UNCHANGED <<writableEnded, closed, spc, answerVars, chatVars, reqVars, parseVars, lineVars, blobVars, tokenVars, uiVars>>

\* stopStreaming: the response is ended unless it has been
stopStreamingUnguarded ==
    /\ writableEnded' = TRUE
    /\ endCalls' = endCalls + 1

stopStreaming ==
    IF ~writableEnded THEN stopStreamingUnguarded
    ELSE UNCHANGED <<writableEnded, endCalls>>

\* stream.on('error')
OnError ==
    /\ spc = "streaming"
    /\ spc' = "errored"
    /\ stopStreaming
    /\ UNCHANGED <<produced, written, aborted, closed, chatReq, chatStatus, streamCalls, chatVars, reqVars, parseVars, lineVars, blobVars, tokenVars, uiVars>>

\* stream.on('end'): the stream emits it at its end and also behind an
\* error event
OnEnd ==
    /\ spc \in {"streaming", "errored"}
    /\ spc' = "ended"
    /\ stopStreaming
    /\ UNCHANGED <<produced, written, aborted, closed, chatReq, chatStatus, streamCalls, chatVars, reqVars, parseVars, lineVars, blobVars, tokenVars, uiVars>>

\* req.on('close') with the stream left running
OnCloseEndOnly ==
    /\ spc \in {"streaming", "ended", "errored"}
    /\ ~closed
    /\ closed' = TRUE
    /\ IF ~writableEnded THEN writableEnded' = TRUE /\ endCalls' = endCalls + 1
       ELSE UNCHANGED <<writableEnded, endCalls>>
    /\ UNCHANGED <<aborted, produced, written, spc, chatReq, chatStatus, streamCalls, chatVars, reqVars, parseVars, lineVars, blobVars, tokenVars, uiVars>>

\* req.on('close'): while the response has not ended, the stream is aborted
\* and the response ended
OnClose ==
    /\ spc \in {"streaming", "ended", "errored"}
    /\ ~closed
    /\ closed' = TRUE
    /\ IF ~writableEnded
       THEN aborted' = TRUE /\ writableEnded' = TRUE /\ endCalls' = endCalls + 1
       ELSE UNCHANGED <<aborted, writableEnded, endCalls>>
    /\ UNCHANGED <<produced, written, spc, chatReq, chatStatus, streamCalls, chatVars, reqVars, parseVars, lineVars, blobVars, tokenVars, uiVars>>

NextStream ==
    \/ HandlerStarts
    \/ StreamFailsToStart
    \/ StreamStarts
    \/ \E textChunk \in Chunks, writeThrows \in BOOLEAN : OnText(textChunk, writeThrows)
    \/ OnError
    \/ OnEnd
    \/ OnClose

SpecStream == InitStream /\ [][NextStream]_vars

\* the chunks of the text events whose write did not throw
Forwarded == MapSeq(SelectSeq(produced, LAMBDA e : ~e.throws), LAMBDA e : e.chunk)

\* C14: when the request closes while the response has not ended, the model
\* stream is aborted and the response ended; and every chunk the stream has
\* produced is in the response as soon as it is produced.
CloseAbortsStream ==
    /\ [](written = Forwarded)
    /\ [][(closed' /\ ~closed /\ ~writableEnded) => (aborted' /\ writableEnded')]_vars

\* the client left after two chunks, while the stream was running
ClosedMidStream ==
    /\ closed
    /\ spc = "streaming"
    /\ aborted
    /\ writableEnded
    /\ Len(written) = 2
    /\ \A i \in 1..Len(produced) : ~produced[i].throws

-----------------------------------------------------------------------------
(* The clarification replies the question list is collected from: the      *)
(* clarification_needed tag, then fragments holding tagged questions and   *)
(* lines of a list.                                                        *)

\* <question>x?</question> for the i-th letter x
QuestionAbout(i) == Open(T_question) \o <<LowerSeq[i], "?">> \o Close(T_question)

\* n tagged questions about the letters after `skip`, one after the other
TaggedRun(n, skip) ==
    LET width == Len(QuestionAbout(1)) IN
    [k \in 1..(n * width) |->
        QuestionAbout(skip + ((k - 1) \div width) + 1)[((k - 1) % width) + 1]]

\* n lines, each a letter after `skip`
LineRun(n, skip) ==
    [k \in 1..(2 * n) |-> IF k % 2 = 1 THEN LowerSeq[skip + ((k + 1) \div 2)] ELSE "\n"]

Q_Who == Open(T_question) \o <<" ", "W", "h", "o", "?", " ">> \o Close(T_question)

Q_WHO == Open(T_question) \o <<"W", "H", "O", "?">> \o Close(T_question)

Q_Lines == <<"-", " ", "w", "h", "o", "\n", "2", ")", " ", "W", "h", "a", "t", "\n">>

Q_LINES == <<"*", "*", "Q", "u", "e", "s", "t", "i", "o", "n", ":", "*", "*", " ", "W", "H", "A", "T", "?", "\n", "W", "h", "e", "r", "e", "\n">>

Q_Tagged == TaggedRun(MAX_FALLBACK_QUESTIONS + 1, 0)

Q_Listed == LineRun(MAX_FALLBACK_QUESTIONS + 1, MAX_FALLBACK_QUESTIONS + 1)

QuestionPieces ==
    <<Q_Who, Q_WHO, Q_Lines, Q_LINES, Q_Tagged, Q_Listed,
      P_QuestionsOpen, P_QuestionsClose, P_ClarClose>>

InitQuestions ==
    /\ reply = P_ClarOpen
    /\ pieces = <<P_ClarOpen>>
    /\ outcome = NoOutcome
    /\ response = NoOutcome
    /\ ppc = "reply"
    /\ IdleLine
    /\ IdleBlob
    /\ IdleService

NextQuestions ==
    \/ \E k \in 1..Len(QuestionPieces) : ProduceReply(QuestionPieces[k])
    \/ StrategyHandler

SpecQuestions == InitQuestions /\ [][NextQuestions]_vars

SameIgnoringCase(a, b) == toLowerCase(a) = toLowerCase(b)

\* the texts of a list in first-seen order, a text seen before in another
\* case left out
FirstSeen(texts) ==
    SelectSeq([i \in 1..Len(texts) |-> IF \E j \in 1..(i - 1) : SameIgnoringCase(texts[j], texts[i])
                                       THEN <<>> ELSE texts[i]],
              LAMBDA t : t # <<>>)

\* the normalized tagged questions of the reply, in order of appearance
TaggedEntries ==
    FirstSeen(MapSeq(QuestionMatchesFrom(reply, 1), normalizeQuestionText))

\* the fallback-derived questions of the reply, in line order
FallbackEntries == deriveQuestionsFromText(fallbackSource(reply))

\* the entries of `fallback` that are in `tagged` in no case
NotAmong(tagged, fallback) ==
    SelectSeq(fallback, LAMBDA q : \A k \in 1..Len(tagged) : ~SameIgnoringCase(tagged[k], q))

NoTwoSame(questions) ==
    \A i, j \in 1..Len(questions) : SameIgnoringCase(questions[i], questions[j]) => i = j

TaggedThenFallback(questions, expected) ==
    expected # <<>> => questions = expected

\* C15: no two questions of a clarification outcome are equal ignoring case,
\* and the list is the normalized tagged questions in order of appearance,
\* then the fallback-derived questions not among them, in line order.
QuestionsUniqueInFirstSeenOrder ==
    (ppc = "answered" /\ outcome.type = "clarification_needed") =>
        /\ NoTwoSame(outcome.questions)
        /\ TaggedThenFallback(outcome.questions,
                              TaggedEntries \o NotAmong(TaggedEntries, FallbackEntries))

\* a tagged question, the same question in another case in a line, and a
\* line with a new question
DuplicateLineDropped ==
    /\ ppc = "answered"
    /\ pieces = <<P_ClarOpen, Q_WHO, Q_Lines>>
    /\ Len(outcome.questions) = 2

\* C16: a clarification outcome holds at most 10 questions, tagged and
\* fallback-derived together.
AtMostTenQuestions ==
    (ppc = "answered" /\ outcome.type = "clarification_needed") =>
        /\ Len(outcome.questions) <= 10
        /\ Len(response.questions) <= 10

-----------------------------------------------------------------------------
(* The uploads parseUploadedFiles is run on: a file of every extension the *)
(* function tells apart, and files that cannot be read, that have no       *)
(* temporary filepath, and pdf files on either side of the size limit.     *)

Named(ext) == <<"f", ".">> \o ext

EXT_exe == <<"e", "x", "e">>

ReceivedExtensions ==
    {EXT_pdf, EXT_docx, EXT_exe, <<>>, <<"P", "D", "F">>, <<"J", "p", "g">>}
        \cup SHEET_EXTENSIONS \cup TEXT_EXTENSIONS \cup IMAGE_EXTENSIONS

\* [filepath, readable, underSizeLimit] of the files that are not plain
Conditions ==
    {<<TRUE, TRUE, FALSE>>, <<TRUE, FALSE, TRUE>>, <<FALSE, TRUE, TRUE>>}

Received ==
    {Upload(Named(ext), TRUE, TRUE, TRUE, C_One) : ext \in ReceivedExtensions}
        \cup {Upload(Named(ext), c[1], c[2], c[3], C_Ten) :
                 ext \in {EXT_pdf, EXT_exe, <<"t", "x", "t">>}, c \in Conditions}

PastedTexts == {Once(<<" ", "\n">>), Once(<<"h", "e", "l", "l", "o">>)}

NextUploads ==
    \/ \E value \in PastedTexts : handleTextChange(JsString(value))
    \/ \E file \in Received : handleFileChange(file)
    \/ \E fieldsText \in {JsString(textInput), JsArray(<<JsString(textInput)>>)} :
          handleSubmit(fieldsText)

SpecUploads == InitBlob /\ [][NextUploads]_vars

InBlob(entry) == entry.type \in {"text", "error"}

\* the START and ERROR_PARSING lines of a blob in order, each with what
\* stands under it
Blocks(b) ==
    MapSeq(SelectSeq(Positions(b), LAMBDA i : IsStartLine(b[i]) \/ IsErrorLine(b[i])),
           LAMBDA i : IF IsStartLine(b[i])
                      THEN [type |-> "text", label |-> StartLabel(b[i]), body |-> Section(b, i)]
                      ELSE [type |-> "error", label |-> ErrorLabel(b[i]), body |-> Section(b, i)])

PastedBlockOf(text) ==
    IF HasInk(text) THEN <<[type |-> "text", label |-> PASTED_TEXT, body |-> text]>> ELSE <<>>

BlockOf(entry) ==
    IF entry.type = "text"
    THEN [type |-> "text", label |-> formatFileHeader(entry.filename), body |-> entry.content]
    ELSE [type |-> "error", label |-> formatFileHeader(entry.filename),
          body |-> Once(ERROR_COLON \o entry.error \o <<"\n", "\n">>)]

\* C17: the blob holds the block of the pasted text first, when the text is
\* not blank, then one block for every text and error entry in upload order;
\* the image and pdf entries are in no block and make up the images and the
\* pdfs lists in upload order; every entry is in exactly one of the three.
BlobPartitionsEntries ==
    bpc = "built" =>
        /\ Blocks(context.blob)
              = PastedBlockOf(textInput) \o MapSeq(SelectSeq(parsedFiles, InBlob), BlockOf)
        /\ context.images = SelectSeq(parsedFiles, LAMBDA e : e.type = "image")
        /\ context.pdfs = SelectSeq(parsedFiles, LAMBDA e : e.type = "pdf")
        /\ \A i \in 1..Len(parsedFiles) : parsedFiles[i].type \in {"text", "error", "image", "pdf"}

\* a pasted text, a pdf sent as it is and a text file
PastedThenFileWithPdfAside ==
    /\ bpc = "built"
    /\ HasInk(textInput)
    /\ Len(parsedFiles) = 2
    /\ parsedFiles[1].type = "pdf"
    /\ parsedFiles[2].type = "text"
    /\ Len(context.pdfs) = 1
    /\ Len(Blocks(context.blob)) = 2

HandledExtensions ==
    {EXT_pdf, EXT_docx} \cup SHEET_EXTENSIONS \cup TEXT_EXTENSIONS \cup IMAGE_EXTENSIONS

\* the message of the exception thrown while the file is extracted, if any
Thrown(file) ==
    IF ~file.filepath THEN MISSING_FILEPATH
    ELSE IF ExtensionOf(FilenameOf(file)) \in HandledExtensions /\ ~file.readable
    THEN READ_FAILURE
    ELSE <<>>

\* the entries of a list of optional entries
Present(options) == MapSeq(SelectSeq(options, LAMBDA o : o # <<>>), Head)

\* C18: a file whose extraction throws gives one error entry with its name
\* and the message, in its place; every other file gives what it gives when
\* uploaded alone; each error entry is an ERROR_PARSING block of the blob.
FailuresAreIsolated ==
    bpc = "built" =>
        /\ parsedFiles
              = Present([i \in 1..Len(files) |->
                            IF Thrown(files[i]) # <<>>
                            THEN <<ErrorEntry(FilenameOf(files[i]), Thrown(files[i]))>>
                            ELSE parseUploadedFiles(<<files[i]>>)])
        /\ SelectSeq(Blocks(context.blob), LAMBDA b : b.type = "error")
              = MapSeq(SelectSeq(parsedFiles, IsError), BlockOf)

\* the first file cannot be read, the second is extracted
FailureThenText ==
    /\ bpc = "built"
    /\ Len(files) = 2
    /\ Thrown(files[1]) = READ_FAILURE
    /\ Len(parsedFiles) = 2
    /\ parsedFiles[1].type = "error"
    /\ parsedFiles[2].type = "text"
    /\ Len(Blocks(context.blob)) = 2

\* the entry the extension, and the size of a pdf, stand for
KindOf(ext, small) ==
    IF ext = EXT_pdf THEN (IF small THEN "pdf" ELSE "text")
    ELSE IF ext \in {EXT_docx} \cup SHEET_EXTENSIONS \cup TEXT_EXTENSIONS THEN "text"
    ELSE IF ext \in IMAGE_EXTENSIONS THEN "image"
    ELSE "none"

MimeOf(ext) ==
    IF ext \in {<<"j", "p", "g">>, <<"j", "p", "e", "g">>} THEN "image/jpeg"
    ELSE IF ext = EXT_png THEN "image/png"
    ELSE IF ext = EXT_gif THEN "image/gif"
    ELSE "none"

\* the kind of an entry, with the mime type of an image and whether the
\* entry carries base64 data
Summary(entry) ==
    [kind |-> entry.type,
     mimeType |-> IF entry.type = "image" THEN entry.mimeType ELSE "none",
     base64 |-> entry.type \in {"pdf", "image"} /\ entry.data = <<"base64 of the bytes of the file">>]

\* what a file stands for by its extension: nothing for an extension that is
\* not handled, an error when the extraction throws
Claimed(file, ext) ==
    IF KindOf(ext, file.underSizeLimit) = "none" THEN <<>>
    ELSE IF Thrown(file) # <<>> THEN <<[kind |-> "error", mimeType |-> "none", base64 |-> FALSE]>>
    ELSE <<[kind |-> KindOf(ext, file.underSizeLimit), mimeType |-> MimeOf(ext),
            base64 |-> KindOf(ext, file.underSizeLimit) \in {"pdf", "image"}]>>

-----------------------------------------------------------------------------
(* The count-tokens handler: requests run concurrently and are cut at      *)
(* their awaits; cachedBaselineTokens is shared by all of them.            *)

MaxRequests == 3

Requests == 1..MaxRequests

\* what the token counter is asked to count: the number of files, the
\* characters of the text and of the text entries, and the tokens the full
\* request counts beyond those of the prompt around an empty blob
Payload(fileCount, chars, tokens) == [files |-> fileCount, chars |-> chars, tokens |-> tokens]

EmptyPayload == Payload(0, 0, 0)

\* a text; a text that adds no token; a file that gives no entry; a text
\* counted below the cached baseline
Payloads == {Payload(0, 8, 3), Payload(0, 5, 0), Payload(1, 0, 0), Payload(0, 8, 0 - 1)}

\* the tokens of the system prompt and of the prompt around an empty blob
PromptTokens == 40

\* anthropic.messages.countTokens: input_tokens for the prompt with a payload
countTokensOf(payload) == PromptTokens + payload.tokens

NoAnswer == [status |-> 0, tokens |-> Null, error |-> FALSE]

At(at, payload) == [at |-> at, payload |-> payload]

InitTokens ==
    /\ tokenEnv \in BOOLEAN
    /\ cachedBaselineTokens = Null
    /\ tpc = [r \in Requests |-> At("idle", EmptyPayload)]
    /\ baselineCalls = <<>>
    /\ answers = [r \in Requests |-> NoAnswer]
    /\ IdleRequest
    /\ IdleChat
    /\ IdleStream
    /\ IdleUi
    /\ IdleParse
    /\ IdleLine
    /\ IdleBlob

\* the handler answers and returns
Answer(r, code, tokens) ==
    /\ tpc' = [tpc EXCEPT ![r].at = "done"]
    /\ answers' = [answers EXCEPT ![r] = [status |-> code, tokens |-> tokens, error |-> code # 200]]

\* the catch of the handler answers 200 with 0 tokens and an error
AnswerFromCatch(r) ==
    /\ tpc' = [tpc EXCEPT ![r].at = "done"]
    /\ answers' = [answers EXCEPT ![r] = [status |-> 200, tokens |-> 0, error |-> TRUE]]

\* a request arrives: the method and the API key are tested, and the form
\* is given to formidable
Arrive(r, verb) ==
    /\ tpc[r].at = "idle"
    /\ IF verb # "POST" THEN Answer(r, 405, Null)
       ELSE IF ~tokenEnv THEN Answer(r, 500, Null)
       ELSE tpc' = [tpc EXCEPT ![r].at = "form"] /\ UNCHANGED answers
    /\ UNCHANGED <<tokenEnv, cachedBaselineTokens, baselineCalls, reqVars, chatVars, streamVars, parseVars, lineVars, blobVars, uiVars>>

\* form.parse fails: the catch answers 0 tokens
FormRejected(r) ==
    /\ tpc[r].at = "form"
    /\ AnswerFromCatch(r)
    /\ UNCHANGED <<tokenEnv, cachedBaselineTokens, baselineCalls, reqVars, chatVars, streamVars, parseVars, lineVars, blobVars, uiVars>>

\* the form is parsed: a request without text and files is answered with 0,
\* any other goes on to parseUploadedFiles
FormIsParsed(r, payload) ==
    /\ tpc[r].at = "form"
    /\ IF payload = EmptyPayload THEN Answer(r, 200, 0)
       ELSE tpc' = [tpc EXCEPT ![r] = At("files", payload)] /\ UNCHANGED answers
    /\ UNCHANGED <<tokenEnv, cachedBaselineTokens, baselineCalls, reqVars, chatVars, streamVars, parseVars, lineVars, blobVars, uiVars>>

\* the test of the cache, were it left out
CacheMissAlways(cached) == TRUE

\* cachedBaselineTokens === null
CacheMiss(cached) == cached = Null

\* the files are parsed and the blob is built; on a cache miss the baseline
\* call is issued, otherwise the call for the full request
FilesParsed(r) ==
    /\ tpc[r].at = "files"
    /\ IF CacheMiss(cachedBaselineTokens)
       THEN /\ baselineCalls' = Append(baselineCalls, [by |-> r, cached |-> cachedBaselineTokens])
            /\ tpc' = [tpc EXCEPT ![r].at = "baseline"]
       ELSE /\ tpc' = [tpc EXCEPT ![r].at = "full"]
            /\ UNCHANGED baselineCalls
    /\ UNCHANGED <<tokenEnv, cachedBaselineTokens, answers, reqVars, chatVars, streamVars, parseVars, lineVars, blobVars, uiVars>>

\* the baseline call is answered: the cache is written and the call for
\* the full request issued
BaselineAnswered(r) ==
    /\ tpc[r].at = "baseline"
    /\ cachedBaselineTokens' = countTokensOf(EmptyPayload)
    /\ tpc' = [tpc EXCEPT ![r].at = "full"]
    /\ UNCHANGED <<tokenEnv, baselineCalls, answers, reqVars, chatVars, streamVars, parseVars, lineVars, blobVars, uiVars>>

\* the baseline call is rejected: the catch answers 0 tokens
BaselineRejected(r) ==
    /\ tpc[r].at = "baseline"
    /\ AnswerFromCatch(r)
    /\ UNCHANGED <<tokenEnv, cachedBaselineTokens, baselineCalls, reqVars, chatVars, streamVars, parseVars, lineVars, blobVars, uiVars>>

\* the estimate as it would be without the least value of 1
fallbackEstimateUnbounded(textCharacterCount) == (textCharacterCount + 3) \div 4

\* Math.max(1, Math.ceil(textCharacterCount / 4))
fallbackEstimate(textCharacterCount) == MaxOf({1, (textCharacterCount + 3) \div 4})

\* the tokens of the user's content
userContentTokens(fullTokens, baseline, textCharacterCount) ==
    IF fullTokens - baseline <= 0 THEN fallbackEstimate(textCharacterCount)
    ELSE fullTokens - baseline

\* the call for the full request is answered: the baseline is subtracted
FullAnswered(r) ==
    /\ tpc[r].at = "full"
    /\ Answer(r, 200, userContentTokens(countTokensOf(tpc[r].payload),
                                        cachedBaselineTokens, tpc[r].payload.chars))
    /\ UNCHANGED <<tokenEnv, cachedBaselineTokens, baselineCalls, reqVars, chatVars, streamVars, parseVars, lineVars, blobVars, uiVars>>

\* the call for the full request is rejected: the catch answers 0 tokens
FullRejected(r) ==
    /\ tpc[r].at = "full"
    /\ AnswerFromCatch(r)
    /\ UNCHANGED <<tokenEnv, cachedBaselineTokens, baselineCalls, reqVars, chatVars, streamVars, parseVars, lineVars, blobVars, uiVars>>

NextTokens ==
    \/ \E r \in Requests, verb \in {"POST", "GET"} : Arrive(r, verb)
    \/ \E r \in Requests : FormRejected(r)
    \/ \E r \in Requests, payload \in Payloads \cup {EmptyPayload} : FormIsParsed(r, payload)
    \/ \E r \in Requests : FilesParsed(r)
    \/ \E r \in Requests : BaselineAnswered(r)
    \/ \E r \in Requests : BaselineRejected(r)
    \/ \E r \in Requests : FullAnswered(r)
    \/ \E r \in Requests : FullRejected(r)

SpecTokens == InitTokens /\ [][NextTokens]_vars

\* C20, as stated: however the requests interleave, the baseline call is
\* issued at most twice in all.
BaselineCalledAtMostTwice ==
    Len(baselineCalls) <= 2

\* C20: a request issues the baseline call at most once, and only when it
\* found the cache empty; once the cache holds a value it is never reset to
\* null and never holds another value.
BaselineCalledOnMissOnly ==
    /\ [](/\ \A i \in 1..Len(baselineCalls) : baselineCalls[i].cached = Null
          /\ \A i, j \in 1..Len(baselineCalls) :
                baselineCalls[i].by = baselineCalls[j].by => i = j
          /\ cachedBaselineTokens \in {Null, countTokensOf(EmptyPayload)})
    /\ [][cachedBaselineTokens # Null => cachedBaselineTokens' = cachedBaselineTokens]_vars

\* three requests found the cache empty before the first baseline call was
\* answered; each issued the call, and all were answered
ThreeBaselineCalls ==
    /\ Len(baselineCalls) = 3
    /\ cachedBaselineTokens = countTokensOf(EmptyPayload)
    /\ \A r \in 1..3 : tpc[r].at = "done" /\ answers[r].status = 200 /\ answers[r].tokens > 0

\* a request that was answered with the tokens of its content
Counted(r) ==
    /\ tpc[r].at = "done"
    /\ tpc[r].payload # EmptyPayload
    /\ answers[r].status = 200
    /\ ~answers[r].error

\* full count minus cached baseline, for the request r
Difference(r) == countTokensOf(tpc[r].payload) - cachedBaselineTokens

\* C21, as stated: the answer is the difference when it is positive, and
\* otherwise the characters of the user's text divided by 4, rounded up.
TokensAreDifferenceOrQuarter ==
    \A r \in Requests :
        Counted(r) =>
            answers[r].tokens = IF Difference(r) > 0 THEN Difference(r)
                                ELSE (tpc[r].payload.chars + 3) \div 4

\* C21: the answer is the difference when it is positive, and otherwise the
\* characters of the user's text divided by 4, rounded up, and at least 1.
TokensAreDifferenceOrEstimate ==
    \A r \in Requests :
        Counted(r) =>
            answers[r].tokens =
                IF Difference(r) > 0 THEN Difference(r)
                ELSE IF tpc[r].payload.chars = 0 THEN 1
                ELSE (tpc[r].payload.chars + 3) \div 4

\* one request was answered with the difference, one with the estimate of a
\* text, one with the estimate of no text
DifferenceAndEstimates ==
    /\ \A r \in 1..3 : Counted(r)
    /\ Difference(1) > 0
    /\ Difference(2) < 0
    /\ Difference(3) = 0 /\ tpc[3].payload.chars = 0

-----------------------------------------------------------------------------
(* The refusals the parser is run on: the cannot_proceed tag, then         *)
(* fragments with message blocks that are whole, blank, open or in         *)
(* capitals.                                                               *)

M_Open == Open(T_message)

M_Close == Close(T_message)

M_Blank == Open(T_message) \o <<" ", "\n">> \o Close(T_message)

M_Capitals == <<"<", "M", "E", "S", "S", "A", "G", "E", ">", "S", "t", "o", "p", "<", "/", "M", "E", "S", "S", "A", "G", "E", ">">>

M_Attr == <<"<", "m", "e", "s", "s", "a", "g", "e", " ", "i", "d", ">", "H", "a", "l", "t">>

RefusalPieces ==
    <<P_Message, M_Open, M_Close, M_Blank, M_Capitals, M_Attr, P_Thinking, P_Text,
      P_FullPlan, Close(T_cannot_proceed)>>

InitRefusal ==
    /\ reply = P_Cannot
    /\ pieces = <<P_Cannot>>
    /\ outcome = NoOutcome
    /\ response = NoOutcome
    /\ ppc = "reply"
    /\ IdleLine
    /\ IdleBlob
    /\ IdleService

NextRefusal ==
    \/ \E k \in 1..Len(RefusalPieces) : ProduceReply(RefusalPieces[k])
    \/ StrategyHandler

SpecRefusal == InitRefusal /\ [][NextRefusal]_vars

\* <message> stands at i and </message> at j, behind it
MessageBlock(text, i, j) ==
    /\ StartsWithAt(text, i, Open(T_message))
    /\ StartsWithAt(text, j, Close(T_message))
    /\ j >= i + Len(Open(T_message))

\* the block of the first <message> that is closed, up to the first
\* </message> behind it
FirstMessageBlock(text, i, j) ==
    /\ MessageBlock(text, i, j)
    /\ \A a \in 1..(i - 1), b \in 1..Len(text) : ~MessageBlock(text, a, b)
    /\ \A b \in 1..(j - 1) : ~MessageBlock(text, i, b)

MessageIsBlockOrRefusal(text, message) ==
    IF \E i, j \in 1..Len(text) : MessageBlock(text, i, j)
    THEN \E i, j \in 1..Len(text) :
            /\ FirstMessageBlock(text, i, j)
            /\ message = trim(Slice(text, i + Len(Open(T_message)), j - 1))
    ELSE message = DEFAULT_REFUSAL

\* C22: a reply with an opening cannot_proceed tag and neither of the other
\* outcome tags is answered with a cannot_proceed outcome whose message is
\* the trimmed content of the message block, or the fixed refusal message
\* when the reply has no complete message block.
RefusalCarriesMessage ==
    (ppc = "answered" /\ ~HasPiece({P_FullPlan})) =>
        /\ outcome.type = "cannot_proceed"
        /\ response = outcome
        /\ MessageIsBlockOrRefusal(reply, outcome.message)

\* a message tag that is never closed: the fixed refusal
RefusalWithoutBlock ==
    /\ ppc = "answered"
    /\ pieces = <<P_Cannot, M_Open, P_Text>>
    /\ outcome.message = DEFAULT_REFUSAL


-----------------------------------------------------------------------------
(* The section chats of the strategy display: one session and at most one  *)
(* registered abort controller for each tab. A handler reads the sessions  *)
(* of the render it was created in; the state setters and the controllers  *)
(* act on the current values.                                              *)

MaxChatRequests == 2

MaxPayloads == 2

Tabs == {"proposal", "content", "ads"}

\* the section of a tab in the payloads the display is given: the ads are
\* never written, and the second payload has a blank content strategy
SectionContent(tabId, version) ==
    CASE tabId = "proposal" -> JsString(<<"p">>)
      [] tabId = "content" -> IF version = 1 THEN JsString(<<"c">>) ELSE JsString(<<" ">>)
      [] OTHER -> JsUndefined

safeContent(value) ==
    IF value.type = "string" /\ Len(trim(value.value)) > 0 THEN value.value ELSE <<>>

hasContent(tabId) == safeContent(SectionContent(tabId, payloadVersion)) # <<>>

createChatSession(open) ==
    [open |-> open, messages |-> <<>>, input |-> <<>>, isLoading |-> FALSE, error |-> FALSE]

buildInitialChatSessions == [t \in Tabs |-> createChatSession(FALSE)]

outsideChatUi ==
    <<parseVars, lineVars, blobVars, reqVars, chatVars, streamVars, tokenVars,
      strategyUiVars, countUiVars, pickerVars>>

\* the display is mounted with the first payload: the payload effect has run
InitChatUi ==
    /\ chatControllers = [t \in Tabs |-> 0]
    /\ chatSessions = buildInitialChatSessions
    /\ renderedSessions = buildInitialChatSessions
    /\ chatRequests = <<>>
    /\ payloadVersion = 1
    /\ IdleParse
    /\ IdleLine
    /\ IdleBlob
    /\ IdleRequest
    /\ IdleChat
    /\ IdleStream
    /\ IdleTokens
    /\ IdleStrategyUi
    /\ IdleCountUi
    /\ IdlePicker

\* controller.abort() for the controllers in a set (0: no controller)
abort(requests, controllers) ==
    [i \in 1..Len(requests) |->
        IF i \in controllers THEN [requests[i] EXCEPT !.aborted = TRUE] ELSE requests[i]]

\* the component renders with the current sessions
Render ==
    /\ renderedSessions # chatSessions
    /\ renderedSessions' = chatSessions
    /\ UNCHANGED <<chatControllers, chatSessions, chatRequests, payloadVersion, outsideChatUi>>

\* the effect on [proposal, contentStrategy, sampleAds]
StrategyPayloadUpdated ==
    /\ payloadVersion < MaxPayloads
    /\ payloadVersion' = payloadVersion + 1
    /\ chatRequests' = abort(chatRequests, {chatControllers[t] : t \in Tabs})
    /\ chatControllers' = [t \in Tabs |-> 0]
    /\ chatSessions' = buildInitialChatSessions
    /\ UNCHANGED <<renderedSessions, outsideChatUi>>

toggleChatPanel(tabId, shouldOpen) ==
    /\ hasContent(tabId)
    /\ renderedSessions[tabId].open # shouldOpen
    /\ IF ~shouldOpen /\ chatControllers[tabId] # 0
       THEN /\ chatRequests' = abort(chatRequests, {chatControllers[tabId]})
            /\ chatControllers' = [chatControllers EXCEPT ![tabId] = 0]
       ELSE UNCHANGED <<chatRequests, chatControllers>>
    /\ chatSessions' = [chatSessions EXCEPT ![tabId].open = shouldOpen]
    /\ UNCHANGED <<renderedSessions, payloadVersion, outsideChatUi>>

resetChatSession(tabId) ==
    /\ hasContent(tabId)
    /\ renderedSessions[tabId].open
    /\ IF chatControllers[tabId] # 0
       THEN /\ chatRequests' = abort(chatRequests, {chatControllers[tabId]})
            /\ chatControllers' = [chatControllers EXCEPT ![tabId] = 0]
       ELSE UNCHANGED <<chatRequests, chatControllers>>
    /\ chatSessions' = [chatSessions EXCEPT ![tabId] = createChatSession(TRUE)]
    /\ UNCHANGED <<renderedSessions, payloadVersion, outsideChatUi>>

handleChatInputChange(tabId, value) ==
    /\ hasContent(tabId)
    /\ renderedSessions[tabId].open
    /\ ~renderedSessions[tabId].isLoading
    /\ chatSessions[tabId].input # value
    /\ chatSessions' = [chatSessions EXCEPT ![tabId].input = value]
    /\ UNCHANGED <<chatControllers, renderedSessions, chatRequests, payloadVersion, outsideChatUi>>

\* the registration of handleChatSubmit: the controller of the tab, if any,
\* is aborted before the new one takes its place
Register(tabId, requests) ==
    IF chatControllers[tabId] # 0 THEN abort(requests, {chatControllers[tabId]}) ELSE requests

\* handleChatSubmit up to its first await: the form of the rendered panel
\* is submitted
handleChatSubmit(tabId) ==
    LET session == renderedSessions[tabId]
        trimmedInput == trim(session.input)
        userMessage == [id |-> 2 * Len(chatRequests) + 1, role |-> "user"]
        historyToSend == [i \in 1..Len(session.messages) |-> session.messages[i].role] \o <<"user">>
        request == [tab |-> tabId, messages |-> historyToSend, aborted |-> FALSE, stage |-> "fetch"]
    IN  /\ Len(chatRequests) < MaxChatRequests
        /\ session.open
        /\ hasContent(tabId)
        /\ ~session.isLoading
        /\ trimmedInput # <<>>
        /\ chatSessions' = [chatSessions EXCEPT ![tabId] =
               [open |-> chatSessions[tabId].open,
                messages |-> chatSessions[tabId].messages \o <<userMessage>>,
                input |-> <<>>, isLoading |-> TRUE, error |-> FALSE]]
        /\ chatRequests' = Register(tabId, chatRequests) \o <<request>>
        /\ chatControllers' = [chatControllers EXCEPT ![tabId] = Len(chatRequests) + 1]
        /\ UNCHANGED <<renderedSessions, payloadVersion, outsideChatUi>>

\* the finally block of handleChatSubmit for request r
ReleaseAlways(r, controllers) ==
    [controllers EXCEPT ![chatRequests[r].tab] = 0]

Release(r, controllers) ==
    IF controllers[chatRequests[r].tab] = r THEN ReleaseAlways(r, controllers) ELSE controllers

\* the response of request r arrives and its body is about to be read
ChatResponseArrives(r) ==
    LET tabId == chatRequests[r].tab IN
    /\ chatRequests[r].stage = "fetch"
    /\ ~chatRequests[r].aborted
    /\ chatRequests' = [chatRequests EXCEPT ![r].stage = "read"]
    /\ chatSessions' = [chatSessions EXCEPT ![tabId].messages =
           chatSessions[tabId].messages \o <<[id |-> 2 * r, role |-> "assistant"]>>]
    /\ UNCHANGED <<chatControllers, renderedSessions, payloadVersion, outsideChatUi>>

\* the body of request r has been read to its end
ChatStreamEnds(r) ==
    LET tabId == chatRequests[r].tab IN
    /\ chatRequests[r].stage = "read"
    /\ ~chatRequests[r].aborted
    /\ chatRequests' = [chatRequests EXCEPT ![r].stage = "settled"]
    /\ chatControllers' = Release(r, chatControllers)
    /\ chatSessions' = [chatSessions EXCEPT ![tabId].isLoading = FALSE]
    /\ UNCHANGED <<renderedSessions, payloadVersion, outsideChatUi>>

\* request r fails: a response that is not OK, no body, or a read that
\* throws; the assistant message, if one was added, is removed
ChatRequestFails(r) ==
    LET tabId == chatRequests[r].tab
        Others(message) == message.id # 2 * r
    IN
    /\ chatRequests[r].stage \in {"fetch", "read"}
    /\ ~chatRequests[r].aborted
    /\ chatRequests' = [chatRequests EXCEPT ![r].stage = "settled"]
    /\ chatControllers' = Release(r, chatControllers)
    /\ chatSessions' = [chatSessions EXCEPT ![tabId] =
           [open |-> chatSessions[tabId].open,
            messages |-> SelectSeq(chatSessions[tabId].messages, Others),
            input |-> chatSessions[tabId].input, isLoading |-> FALSE, error |-> TRUE]]
    /\ UNCHANGED <<renderedSessions, payloadVersion, outsideChatUi>>

\* the pending await of the aborted request r rejects with an AbortError
ChatAbortSeen(r) ==
    LET tabId == chatRequests[r].tab IN
    /\ chatRequests[r].stage \in {"fetch", "read"}
    /\ chatRequests[r].aborted
    /\ chatRequests' = [chatRequests EXCEPT ![r].stage = "settled"]
    /\ chatControllers' = Release(r, chatControllers)
    /\ chatSessions' = [chatSessions EXCEPT ![tabId].isLoading = FALSE]
    /\ UNCHANGED <<renderedSessions, payloadVersion, outsideChatUi>>

NextChatUi ==
    \/ Render
    \/ StrategyPayloadUpdated
    \/ \E tabId \in Tabs, shouldOpen \in BOOLEAN : toggleChatPanel(tabId, shouldOpen)
    \/ \E tabId \in Tabs : resetChatSession(tabId)
    \/ \E tabId \in Tabs, value \in {<<>>, <<"q">>} : handleChatInputChange(tabId, value)
    \/ \E tabId \in Tabs : handleChatSubmit(tabId)
    \/ \E r \in 1..Len(chatRequests) : ChatResponseArrives(r)
    \/ \E r \in 1..Len(chatRequests) : ChatStreamEnds(r)
    \/ \E r \in 1..Len(chatRequests) : ChatRequestFails(r)
    \/ \E r \in 1..Len(chatRequests) : ChatAbortSeen(r)

SpecChatUi == InitChatUi /\ [][NextChatUi]_vars

\* a request that was neither aborted nor settled
ActiveChat(requests, r) == ~requests[r].aborted /\ requests[r].stage # "settled"

ActiveOn(requests, tabId) == {r \in 1..Len(requests) : requests[r].tab = tabId /\ ActiveChat(requests, r)}

\* every active request holds the controller registered for its tab
ActiveIsRegistered ==
    \A r \in 1..Len(chatRequests) :
        ActiveChat(chatRequests, r) => chatControllers[chatRequests[r].tab] = r

\* a submit leaves the request that was registered for its tab aborted
SubmitAbortsRegistered ==
    Len(chatRequests') > Len(chatRequests) =>
        LET tabId == chatRequests'[Len(chatRequests')].tab IN
        chatControllers[tabId] # 0 => chatRequests'[chatControllers[tabId]].aborted

\* closing the panel of a tab or emptying its session leaves no active
\* request on it; a new payload leaves none on any tab
CloseOrResetAborts ==
    /\ \A tabId \in Tabs :
          \/ chatSessions[tabId].open /\ ~chatSessions'[tabId].open
          \/ chatSessions[tabId].messages # <<>> /\ chatSessions'[tabId].messages = <<>>
          => ActiveOn(chatRequests', tabId) = {}
    /\ payloadVersion' # payloadVersion => \A tabId \in Tabs : ActiveOn(chatRequests', tabId) = {}

\* C23: at most one chat request is active on a section tab at any time:
\* every active request is the one registered for its tab (so the cleanup
\* of an older request never removed the controller of a newer one), a
\* submit aborts the request still registered for the tab, and closing the
\* panel, resetting the session or a new strategy payload aborts the
\* request in flight.
OneChatRequestPerTab ==
    /\ [](\A tabId \in Tabs : Cardinality(ActiveOn(chatRequests, tabId)) <= 1)
    /\ []ActiveIsRegistered
    /\ [][SubmitAbortsRegistered /\ CloseOrResetAborts]_vars

\* a second submit from the same render aborted the first request, whose
\* cleanup then ran and left the controller of the second in place
OlderCleanupKeptNewer ==
    /\ Len(chatRequests) >= 2
    /\ chatRequests[1].tab = chatRequests[2].tab
    /\ chatRequests[1].aborted /\ chatRequests[1].stage = "settled"
    /\ ActiveChat(chatRequests, 2)
    /\ chatControllers[chatRequests[2].tab] = 2


-----------------------------------------------------------------------------
(* The App around a strategy request: the input form, the request and the  *)
(* view the response is shown in. State updates of one handler are         *)
(* rendered before the next user event is handled.                        *)

MAX_TOKENS == 200000

MaxSubmits == 2

\* the replies of the model the strategy endpoint answers with HTTP 200
ServerReplies == <<P_ClarOpen, P_FullPlan, P_Cannot, P_Text>>

\* the bodies of the HTTP 200 answers (src/api/strategy.js, 555 to 591)
OkBodies == {guardQuestions(parseXMLResponse(ServerReplies[k])) : k \in 1..Len(ServerReplies)}

\* what a failed request looks like to the App: a response that is not OK
\* with its body, a fetch that rejects, or an OK body that is not JSON
HttpFailure(body) == [kind |-> "http", body |-> body, message |-> <<>>]

Thrown_(kind, message) == [kind |-> kind, body |-> "none", message |-> message]

StrategyFailures ==
    {HttpFailure(body) : body \in {"empty", "message", "message_detail", "detail_same", "no_message", "not_json", "unreadable"}}
    \cup {Thrown_("network", <<"Failed to fetch">>), Thrown_("network", <<>>),
          Thrown_("not_json", <<"Unexpected token">>)}

\* the message of the Error thrown for a response that is not OK
errorMessage(body) ==
    LET statusLine == <<"API request failed: ", "500", " ", "Internal Server Error">> IN
    CASE body = "message" -> <<"message">>
      [] body = "message_detail" -> <<"message", " (", "detail", ")">>
      [] body = "detail_same" -> <<"message">>
      [] body = "not_json" -> statusLine \o <<". ", "body">>
      [] OTHER -> statusLine

\* the error state set in the catch block
caughtMessage(failure) ==
    LET message == IF failure.kind = "http" THEN errorMessage(failure.body) ELSE failure.message
    IN  IF message # <<>> THEN message
        ELSE <<"An error occurred while processing your request">>

\* the branch of the main content that is rendered
View ==
    IF appResponse = NoOutcome THEN "form"
    ELSE IF appResponse.type = "clarification_needed" THEN "dialog"
    ELSE IF appResponse.type = "full_plan" THEN "plan"
    ELSE IF appResponse.type = "cannot_proceed" THEN "notice"
    ELSE "blank"

\* the error block is part of the form branch only
ErrorDisplayed == View = "form" /\ appError # <<>>

InitApp == InitBlob

outsideApp ==
    <<parsedFiles, context, bpc, parseVars, lineVars, reqVars, chatVars, streamVars, tokenVars,
      pickerVars, chatUiVars>>

outsideStrategyUi == <<outsideApp, countingTokens, debouncedTextInput, counts>>

MaxCounts == 2

\* the effect on [debouncedTextInput, files, loading, response], run with
\* the values of a render: countTokens up to its fetch. The tokenCount it
\* starts from is the one the handler of the step has set.
countTokens(debounced, listed, busy, shown, count) ==
    IF busy \/ shown # NoOutcome
    THEN /\ tokenCount' = count
         /\ UNCHANGED <<countingTokens, counts>>
    ELSE IF ~HasInk(debounced) /\ Len(listed) = 0
    THEN /\ tokenCount' = 0
         /\ UNCHANGED <<countingTokens, counts>>
    ELSE /\ Len(counts) < MaxCounts
         /\ tokenCount' = count
         /\ countingTokens' = TRUE
         /\ counts' = Append(counts, [text |-> debounced, files |-> listed, state |-> "pending"])

\* the text box and the file picker of the form, which loading disables
TypeText(value) ==
    /\ View = "form"
    /\ ~loading
    /\ handleTextChange(value)

PickFile(newFile) ==
    /\ View = "form"
    /\ ~loading
    /\ Len(files) < MaxFiles
    /\ files' = files \o <<newFile>>
    /\ countTokens(debouncedTextInput, files', loading, appResponse, tokenCount)
    /\ UNCHANGED <<textInput, wordCount, debouncedTextInput, strategyUiVars, outsideApp>>

\* useDebounce: the timer set for the last change of the text fires
DebounceFires ==
    /\ debouncedTextInput # textInput
    /\ debouncedTextInput' = textInput
    /\ countTokens(debouncedTextInput', files, loading, appResponse, tokenCount)
    /\ UNCHANGED <<appVars, strategyUiVars, outsideApp>>

RECURSIVE length(_)
\* the length of a text
length(text) ==
    IF text = <<>> THEN 0 ELSE Len(text[1].s) * text[1].n + length(Tail(text))

\* the tokens the count-tokens endpoint answers for an input: a stand-in
\* that tells the inputs of the form apart and is over the limit for a
\* full list
TokensFor(text, listed) ==
    IF Len(listed) = MaxFiles THEN MAX_TOKENS + 1
    ELSE 3 * countWords(JsString(text)) + (IF Len(listed) = 0 THEN 0 ELSE Len(listed[1].originalFilename))

\* the tokenCount after an answer
answeredCount(i, outcomeKind) ==
    CASE outcomeKind = "ok" -> TokensFor(counts[i].text, counts[i].files)
      [] outcomeKind = "failed" -> tokenCount
      [] OTHER -> (length(counts[i].text) + 3) \div 4

\* countTokens behind its fetch: request i is answered OK, answered with
\* another status, or the fetch throws
CountAnswered(i, outcomeKind) ==
    /\ counts[i].state = "pending"
    /\ counts' = [counts EXCEPT ![i].state = outcomeKind]
    /\ tokenCount' = answeredCount(i, outcomeKind)
    /\ countingTokens' = FALSE
    /\ UNCHANGED <<debouncedTextInput, appVars, strategyUiVars, outsideApp>>

\* the text field of the request
textPayloadOfInput(clarificationAnswer) == normalizeText(JsString(textInput))

textPayload(clarificationAnswer) ==
    IF clarificationAnswer.type = "string" /\ clarificationAnswer.value # <<>>
    THEN normalizeText(clarificationAnswer)
    ELSE textPayloadOfInput(clarificationAnswer)

\* App.handleSubmit up to its fetch
handleSubmitRequest(clarificationAnswer) ==
    /\ Len(sent) < MaxSubmits
    /\ loading' = TRUE
    /\ appError' = <<>>
    /\ sent' = Append(sent, [text |-> textPayload(clarificationAnswer), files |-> files])
    /\ flying' = flying \cup {Len(sent) + 1}
    /\ UNCHANGED <<appResponse, tokenCount, appVars, outsideStrategyUi>>

\* the disabled attribute of the Generate Strategy button
GenerateDisabledUnlessLoading ==
    \/ tokenCount > MAX_TOKENS
    \/ ~HasInk(normalizeText(JsString(textInput))) /\ Len(files) = 0

GenerateDisabled == loading \/ GenerateDisabledUnlessLoading

GenerateStrategy ==
    /\ View = "form"
    /\ ~GenerateDisabled
    /\ answer' = answer
    /\ handleSubmitRequest(JsNull)

\* ClarificationDialog: the answer box, which loading disables
handleAnswerChange(value) ==
    /\ View = "dialog"
    /\ ~loading
    /\ answer # value
    /\ answer' = value
    /\ UNCHANGED <<loading, appResponse, appError, sent, flying, tokenCount, appVars, outsideStrategyUi>>

handleClarificationSubmit(answerValue) == handleSubmitRequest(JsString(answerValue))

\* ClarificationDialog.handleSubmit, behind its submit button
ClarificationDialogSubmit ==
    /\ View = "dialog"
    /\ ~(loading \/ ~HasInk(answer))
    /\ HasInk(answer)
    /\ handleClarificationSubmit(answer)
    /\ answer' = <<>>

\* the Start Over buttons: of the dialog (which loading disables), of the
\* plan display and of the cannot-proceed notice
handleReset ==
    /\ \/ View = "dialog" /\ ~loading
       \/ View \in {"plan", "notice"}
    /\ textInput' = <<>>
    /\ wordCount' = countWords(JsString(textInput'))
    /\ files' = <<>>
    /\ appResponse' = NoOutcome
    /\ appError' = <<>>
    /\ answer' = <<>>
    /\ countTokens(debouncedTextInput, files', loading, appResponse', 0)
    /\ UNCHANGED <<loading, sent, flying, debouncedTextInput, outsideApp>>

\* the answer state lives as long as the dialog is mounted
AnswerAfter(nextResponse) ==
    IF View = "dialog" /\ nextResponse.type = "clarification_needed" THEN answer ELSE <<>>

\* request r is answered with HTTP 200 and a JSON body
StrategyAnswered(r, body) ==
    /\ r \in flying
    /\ appResponse' = body
    /\ loading' = FALSE
    /\ flying' = flying \ {r}
    /\ answer' = AnswerAfter(body)
    /\ UNCHANGED <<appError, sent, tokenCount, appVars, outsideStrategyUi>>

\* request r fails
StrategyFailed(r, failure) ==
    /\ r \in flying
    /\ appError' = caughtMessage(failure)
    /\ loading' = FALSE
    /\ flying' = flying \ {r}
    /\ countTokens(debouncedTextInput, files, loading', appResponse, tokenCount)
    /\ UNCHANGED <<appResponse, answer, sent, debouncedTextInput, appVars, outsideApp>>

NextApp ==
    \/ \E k \in 1..3 : TypeText(JsString(TypedTexts[k]))
    \/ \E k \in 1..2 : PickFile(Uploads[k])
    \/ GenerateStrategy
    \/ \E value \in {<<>>, Once(<<" ">>), Once(<<"y", "e", "s">>)} : handleAnswerChange(value)
    \/ ClarificationDialogSubmit
    \/ handleReset
    \/ \E r \in flying, body \in OkBodies : StrategyAnswered(r, body)
    \/ \E r \in flying, failure \in StrategyFailures : StrategyFailed(r, failure)
    \/ DebounceFires
    \/ \E i \in 1..Len(counts), outcomeKind \in {"ok", "failed", "threw"} : CountAnswered(i, outcomeKind)

SpecApp == InitApp /\ [][NextApp]_vars


\* the view that belongs to a response
ViewOf(body) ==
    CASE body.type = "clarification_needed" -> "dialog"
      [] body.type = "full_plan" -> "plan"
      [] body.type = "cannot_proceed" -> "notice"
      [] OTHER -> "result"

\* C24: whenever no strategy request is in flight the App shows a usable
\* view: the form when there is no response, otherwise the dialog, the plan
\* or the notice that belongs to the type of the response, for every body
\* answered with HTTP 200.
IdleViewIsUsable ==
    flying = {} =>
        /\ View \in {"form", "dialog", "plan", "notice"}
        /\ appResponse = NoOutcome \/ View = ViewOf(appResponse)

\* C25: once loading has ended, the message of a failed strategy request
\* is displayed, from whatever view the request was started.
FailureIsDisplayed == (~loading /\ appError # <<>>) => ErrorDisplayed

\* a request of the App was started by this step
RequestStarts == Len(sent') = Len(sent) + 1

\* the response state was cleared by this step
ResponseCleared == appResponse # NoOutcome /\ appResponse' = NoOutcome

\* C26: loading is true exactly while a strategy request is in flight, at
\* most one request is in flight, and while loading is true no step starts
\* another request or resets the App.
LoadingGuardsRequest ==
    /\ [](loading <=> flying # {})
    /\ [](Cardinality(flying) <= 1)
    /\ [][loading => ~RequestStarts /\ ~ResponseCleared]_vars

\* the answer to a clarification is on its way while the dialog stays up
AnswerInFlight ==
    /\ loading
    /\ View = "dialog"
    /\ flying = {2}

-----------------------------------------------------------------------------
(* FileUpload: files are added through checkAndAddFiles, which awaits a    *)
(* token estimate for the list it was called with before it hands the new  *)
(* list to the App.                                                        *)

MaxAdds == 3

\* the files of one choice or one drop
Selections == {<<Uploads[1]>>, <<Uploads[2]>>, <<Uploads[3]>>, <<Uploads[1], Uploads[4]>>}

\* what onCheckTokens resolves to: the tokens of a count-tokens answer, or
\* 0 when the request fails
Estimates == {0, MAX_TOKENS, MAX_TOKENS + 1}

maxTokens == MAX_TOKENS

\* the disabled prop of FileUpload
disabled == loading

InitPicker == InitBlob

outsidePicker ==
    <<textInput, wordCount, parsedFiles, context, bpc, parseVars, lineVars, reqVars, chatVars,
      streamVars, tokenVars, strategyUiVars, countUiVars, chatUiVars>>

\* checkAndAddFiles up to its await: the call keeps the files prop of the
\* render it was made in
checkAndAddFiles(newFiles) ==
    /\ Len(pendingAdds) < MaxAdds
    /\ tokenWarning' = <<>>
    /\ checking' = TRUE
    /\ pendingAdds' = Append(pendingAdds, [files |-> files, newFiles |-> newFiles, state |-> "pending"])
    /\ UNCHANGED <<files, outsidePicker>>

\* files are chosen in the dialog the drop zone opens on a click
ChooseFiles(newFiles) ==
    /\ ~disabled
    /\ ~checking
    /\ checkAndAddFiles(newFiles)

\* files are dropped on the drop zone
handleDrop(droppedFiles) ==
    /\ ~disabled
    /\ checkAndAddFiles(droppedFiles)

\* the list handed to onChange by the call that was made with `listed`
AddedTo(listed, newFiles) == listed \o newFiles

\* checkAndAddFiles behind its await: the estimate of add i arrives
EstimateArrives(i, estimatedTokens) ==
    /\ pendingAdds[i].state = "pending"
    /\ checking' = FALSE
    /\ IF estimatedTokens > maxTokens
       THEN /\ tokenWarning' = <<"Cannot add ", Len(pendingAdds[i].newFiles), " file(s). This would result in ",
                                 estimatedTokens, " tokens, exceeding the limit of ", maxTokens, ".">>
            /\ pendingAdds' = [pendingAdds EXCEPT ![i].state = "refused"]
            /\ UNCHANGED files
       ELSE /\ files' = AddedTo(pendingAdds[i].files, pendingAdds[i].newFiles)
            /\ pendingAdds' = [pendingAdds EXCEPT ![i].state = "accepted"]
            /\ UNCHANGED tokenWarning
    /\ UNCHANGED outsidePicker

\* FileUpload.removeFile: the remove button of a listed file
RemoveListedFile(index) ==
    /\ ~disabled
    /\ files' = [i \in 1..(Len(files) - 1) |-> IF i < index THEN files[i] ELSE files[i + 1]]
    /\ tokenWarning' = <<>>
    /\ UNCHANGED <<pendingAdds, checking, outsidePicker>>

NextPicker ==
    \/ \E newFiles \in Selections : ChooseFiles(newFiles)
    \/ \E droppedFiles \in Selections : handleDrop(droppedFiles)
    \/ \E i \in 1..Len(pendingAdds), estimatedTokens \in Estimates : EstimateArrives(i, estimatedTokens)
    \/ \E index \in 1..Len(files) : RemoveListedFile(index)

SpecPicker == InitPicker /\ [][NextPicker]_vars

\* the files of list a are in list b, in the same order
Within(a, b) ==
    \E at \in [1..Len(a) -> 1..Len(b)] :
        /\ \A i \in 1..Len(a) : a[i] = b[at[i]]
        /\ \A i, j \in 1..Len(a) : i < j => at[i] < at[j]

\* C27: an add that passes its token check keeps every listed file and
\* puts its own files in the list, also when it was started while the check
\* of an earlier add was pending; an add whose estimate exceeds maxTokens
\* leaves the list as it is and sets a warning.
AddsNeverLoseFiles ==
    [][\A i \in 1..Len(pendingAdds) :
          pendingAdds[i].state = "pending" =>
             /\ pendingAdds'[i].state = "accepted" =>
                    /\ Within(files, files')
                    /\ Within(pendingAdds[i].newFiles, files')
             /\ pendingAdds'[i].state = "refused" =>
                    /\ files' = files
                    /\ tokenWarning' # <<>>]_vars


\* the form is shown, no request of either kind is outstanding and no
\* debounce timer is pending
CountsSettled ==
    /\ View = "form"
    /\ flying = {}
    /\ debouncedTextInput = textInput
    /\ \A i \in 1..Len(counts) : counts[i].state # "pending"

\* the count of the input the form holds
CurrentCount ==
    IF ~HasInk(textInput) /\ Len(files) = 0 THEN 0 ELSE TokensFor(textInput, files)

\* C28: once every count-tokens request of the App has completed (all of
\* them answered OK), the tokenCount shown is the count of the text and the
\* files the form holds now, and 0 for an input emptied by a reset: the
\* answer for an older input has not replaced the result of a newer one.
TokenCountIsCurrent ==
    (CountsSettled /\ \A i \in 1..Len(counts) : counts[i].state = "ok") =>
        tokenCount = CurrentCount


\* the section content of the request is missing, not a string, or blank
NoSectionContent ==
    chatReq.sectionContent.type # "string" \/ Inked(chatReq.sectionContent.value) = {}

\* the status a request that fails validation is answered with (0: the
\* request is valid)
RejectionOf ==
    IF chatReq.method # "POST" THEN 405
    ELSE IF ~chatReq.readable THEN 0
    ELSE IF NoSectionContent THEN 400
    ELSE IF ~chatReq.apiKey THEN 500
    ELSE 0

\* C29: the response of a section-chat request is ended at most once,
\* whichever of stream end, stream error and client close comes first and
\* whatever follows; a request that is not a POST, has no section content or
\* finds no API key is answered 405, 400 or 500 and no model stream is
\* started for it.
ResponseEndedOnce ==
    /\ endCalls <= 1
    /\ (spc # "arrived" /\ RejectionOf # 0) =>
           /\ chatStatus = RejectionOf
           /\ streamCalls = 0
           /\ endCalls = 1
           /\ produced = <<>>

\* the stream ended and ended the response, then the client closed
ClosedAfterEnd ==
    /\ spc = "ended"
    /\ closed
    /\ ~aborted
    /\ endCalls = 1
    /\ written # <<>>

====
